---- MODULE Spec2Model ----
(***************************************************************************)
(* Community app (React Native + Firebase): the post repository            *)
(* (PostService), the account repository (AuthService) and the comment     *)
(* item handlers that call them, over a document store with optimistic     *)
(* transactions, a blob store and an identity provider.                    *)
(*                                                                         *)
(* Every await of the source is a step boundary: other clients' steps may   *)
(* interleave there.  A store transaction is a read step and a commit step; *)
(* the commit is refused and the update function re-run when the document   *)
(* was written after the read.                                              *)
(***************************************************************************)
EXTENDS Integers, Sequences, FiniteSets, TLC

\* ------------------------------------------------------------------ bounds
Users    == {"A", "B"}
NoUser   == "nobody"
Clients  == {"d1", "d2"}
PostIds  == {"p1", "p2"}
Drafts   == {"x"}          \* texts of new comments and replies
Contents == {"x", "y"}     \* texts an edit may set
Names    == {"n2"}         \* display names a profile update may set ("n1" at sign-up)
NoPhoto  == "nophoto"
Photos   == {"ph1"}
MaxTime     == 2
MaxComments == 2
MaxReplies  == 2
MaxOps      == 3
MaxMutations == 3

Times == 1..MaxTime
\* imageUrl undefined: no image attached (image names are the positive numbers)
NoImage == 0

\* ------------------------------------------------------------------- state
VARIABLES
    posts,        \* posts collection: PostIds -> document or NoDoc
    usedIds,      \* identifiers the store has assigned (never reused)
    blobs,        \* post images present in blob storage
    now,          \* the wall clock, Date.now()
    currentUser,  \* auth().currentUser of each client: a uid or NoUser
    identity,     \* identity provider profile of each user
    op,           \* each client's call in flight
    res,          \* each client's last ApiResponse: "none" (pending), "ok", or the error
    opsLeft,      \* calls that may still be started
    serial,       \* history: the posts as the committed mutations give them one at a time
    likeCnt,      \* history: committed toggleLike calls per post and user
    cLikeCnt,     \* history: committed toggleCommentLike calls per comment and user
    shown,        \* history: the comments (post, id, author) a client's screen may show
    staleWrites,  \* history: posts whose comments were overwritten from a superseded read
    accounts,     \* per user: the identity's existence and password, the users document
    view          \* what each client's last read operation returned or delivered

vars == <<posts, usedIds, blobs, now, currentUser, identity, op, res, opsLeft,
          serial, likeCnt, cLikeCnt, shown, staleWrites, accounts, view>>

NoDoc == [exists |-> FALSE]

\* A client's call: pc "idle" when none is in flight (kind, post, cid and uid are then
\* those of its last call).  stale: the posts written since the call read them;
\* retried: the transaction ran its update function more than once.
\* io: how the call's blob-store or fan-out step went ("none" when it has none).
IdleOp == [kind |-> "idle", pc |-> "idle", post |-> "p1", cid |-> 0, uid |-> NoUser,
           arg |-> <<>>, write |-> <<>>, stale |-> {}, retried |-> FALSE, io |-> "none"]

\* signUp: the identity with its password, and the users document written for it
Passwords == {"pw1", "pw2"}
FreshAccount == [exists |-> TRUE, password |-> "pw1",
                 profile |-> [exists |-> TRUE, displayName |-> "n1", photoURL |-> NoPhoto]]

\* no read has returned yet
NoView == [kind |-> "none"]

\* the error messages of the ApiResponse
NotFound      == "post not found"
LoginRequired == "login required"
NotAuthorised == "only the author may delete"
StoreError    == "store error"
ReauthFailed  == "re-authentication failed"
Refusals      == {NotFound, LoginRequired, NotAuthorised}
Failures      == Refusals \cup {StoreError, ReauthFailed}

\* ---------------------------------------------------------- pure helpers
Includes(s, x) == \E k \in 1..Len(s) : s[k] = x

RECURSIVE Filter(_, _)
\* Array.prototype.filter(id => id !== x)
Filter(s, x) ==
    IF s = <<>> THEN <<>>
    ELSE IF Head(s) = x THEN Filter(Tail(s), x)
         ELSE <<Head(s)>> \o Filter(Tail(s), x)

\* likes.includes(userId) ? likes.filter(id => id !== userId) : [...likes, userId]
ToggleNoRemove(likes, userId) ==
    IF Includes(likes, userId) THEN likes ELSE Append(likes, userId)
Toggle(likes, userId) ==
    IF Includes(likes, userId) THEN Filter(likes, userId) ELSE Append(likes, userId)

\* toggleLike's update: { likes: ... }
ToggleLikeAppends(doc, userId) ==
    [field |-> "likes", value |-> Append(doc.likes, userId)]
ToggleLikeUpdate(doc, userId) ==
    [field |-> "likes", value |-> Toggle(doc.likes, userId)]

\* comments.map(c => c.id === commentId ? f(c) : c), f given as the mapped sequence
MapById(cs, commentId, mapped) ==
    IF cs = <<>> THEN <<>>
    ELSE [k \in 1..Len(cs) |-> IF cs[k].id = commentId THEN mapped[k] ELSE cs[k]]

RECURSIVE FilterById(_, _)
\* comments.filter(comment => comment.id !== commentId)
FilterById(cs, commentId) ==
    IF cs = <<>> THEN <<>>
    ELSE IF Head(cs).id = commentId THEN FilterById(Tail(cs), commentId)
         ELSE <<Head(cs)>> \o FilterById(Tail(cs), commentId)

\* The forms a time takes: the ISO string that createdAt.toISOString() stores, and
\* the Date that new Date(string) and Timestamp.toDate() give.  A post's own
\* createdAt is stored as the store's Timestamp, here the instant itself.
Iso(t)    == <<"iso", t>>
Date(t)   == <<"date", t>>
Undefined == <<"undefined">>

\* addComment's comment object (id = Date.now().toString(), here the instant itself)
NewComment(t, uid, name, photo, content) ==
    [id |-> t, authorId |-> uid, authorName |-> name, authorPhotoURL |-> photo,
     content |-> content, createdAt |-> Iso(t), likes |-> <<>>, replies |-> <<>>,
     isEdited |-> FALSE]

\* addReply's reply object
NewReply(t, uid, name, photo, content) ==
    [id |-> t, authorId |-> uid, authorName |-> name, authorPhotoURL |-> photo,
     content |-> content, createdAt |-> Iso(t), likes |-> <<>>, isEdited |-> FALSE]

\* addComment's update: { comments: [...comments, comment] }
AddCommentPrepends(doc, comment) ==
    [field |-> "comments", value |-> <<comment>> \o doc.comments]
AddCommentUpdate(doc, comment) ==
    [field |-> "comments", value |-> Append(doc.comments, comment)]

\* toggleCommentLike's update
ToggleCommentLikeReplaces(doc, commentId, userId) ==
    [field |-> "comments",
     value |-> MapById(doc.comments, commentId,
                 [k \in 1..Len(doc.comments) |->
                    [doc.comments[k] EXCEPT !.likes =
                        IF Includes(@, userId) THEN Filter(@, userId) ELSE <<userId>>]])]
ToggleCommentLikeUpdate(doc, commentId, userId) ==
    [field |-> "comments",
     value |-> MapById(doc.comments, commentId,
                 [k \in 1..Len(doc.comments) |->
                    [doc.comments[k] EXCEPT !.likes = Toggle(@, userId)]])]

\* updateComment's update (the updatedAt stamp is not modelled)
UpdateCommentUpdate(doc, commentId, newContent) ==
    [field |-> "comments",
     value |-> MapById(doc.comments, commentId,
                 [k \in 1..Len(doc.comments) |->
                    [doc.comments[k] EXCEPT !.content = newContent, !.isEdited = TRUE]])]

\* deleteComment's update
DeleteCommentUpdate(doc, commentId) ==
    [field |-> "comments", value |-> FilterById(doc.comments, commentId)]

\* addReply's update
AddReplyUpdate(doc, commentId, reply) ==
    [field |-> "comments",
     value |-> MapById(doc.comments, commentId,
                 [k \in 1..Len(doc.comments) |->
                    [doc.comments[k] EXCEPT !.replies = Append(@, reply)]])]

\* The update function a transaction runs on the document it read.
MutationUpdate(o, doc) ==
    CASE o.kind = "toggleLike"        -> ToggleLikeUpdate(doc, o.uid)
      [] o.kind = "addComment"        -> AddCommentUpdate(doc, o.arg)
      [] o.kind = "toggleCommentLike" -> ToggleCommentLikeUpdate(doc, o.cid, o.uid)
      [] o.kind = "updateComment"     -> UpdateCommentUpdate(doc, o.cid, o.arg)
      [] o.kind = "deleteComment"     -> DeleteCommentUpdate(doc, o.cid)
      [] o.kind = "addReply"          -> AddReplyUpdate(doc, o.cid, o.arg)

\* transaction.update / batch.update: a field-level write to an existing document
ApplyWrite(doc, w) ==
    IF w.field = "likes" THEN [doc EXCEPT !.likes = w.value]
    ELSE IF w.field = "comments" THEN [doc EXCEPT !.comments = w.value]
    ELSE IF w.field = "authorName" THEN [doc EXCEPT !.authorName = w.value]
    ELSE [doc EXCEPT !.authorPhotoURL = w.value]

\* ------------------------------------------------- fan-out (AuthService)
\* comment.replies.map(reply => reply.authorId === userId ? {...new field} : reply)
FanOutReplies(rs, userId, field, value) ==
    IF rs = <<>> THEN <<>>
    ELSE [k \in 1..Len(rs) |->
            IF rs[k].authorId = userId
            THEN IF field = "authorName" THEN [rs[k] EXCEPT !.authorName = value]
                 ELSE [rs[k] EXCEPT !.authorPhotoURL = value]
            ELSE rs[k]]

\* postData.comments.map(...): the comment's own field, then its replies
FanOutComments(cs, userId, field, value) ==
    IF cs = <<>> THEN <<>>
    ELSE [k \in 1..Len(cs) |->
            LET c  == cs[k]
                c1 == IF c.authorId = userId
                      THEN IF field = "authorName" THEN [c EXCEPT !.authorName = value]
                           ELSE [c EXCEPT !.authorPhotoURL = value]
                      ELSE c
            IN [c1 EXCEPT !.replies = FanOutReplies(@, userId, field, value)]]

\* commentUpdated of some comment: the user wrote it or one of its replies
CommentUpdatedNever(cs, userId) == FALSE
CommentUpdated(cs, userId) ==
    \E k \in 1..Len(cs) :
        \/ cs[k].authorId = userId
        \/ \E r \in 1..Len(cs[k].replies) : cs[k].replies[r].authorId = userId

\* The batch.update calls the scan queues for one document, in order.
FanOutWrites(doc, userId, field, value) ==
    LET own == doc.authorId = userId
    IN (IF own THEN <<[field |-> field, value |-> value]>> ELSE <<>>)
       \o (IF Len(doc.comments) > 0 /\ (own \/ CommentUpdated(doc.comments, userId))
           THEN <<[field |-> "comments",
                   value |-> FanOutComments(doc.comments, userId, field, value)]>>
           ELSE <<>>)

RECURSIVE ApplyWrites(_, _)
ApplyWrites(doc, ws) ==
    IF ws = <<>> THEN doc ELSE ApplyWrites(ApplyWrite(doc, Head(ws)), Tail(ws))

WritesComments(ws) == \E k \in 1..Len(ws) : ws[k].field = "comments"

\* -------------------------------------------------------- history helpers
NoCount == [u \in Users |-> 0]
Count(cnt, u) == [cnt EXCEPT ![u] = @ + 1]

ShownOf(p, doc) ==
    IF doc.exists
    THEN {[post |-> p, id |-> doc.comments[k].id, authorId |-> doc.comments[k].authorId] :
            k \in 1..Len(doc.comments)}
    ELSE {}

RECURSIVE FilterPar(_, _, _)
FilterPar(par, cs, commentId) ==
    IF cs = <<>> \/ par = <<>> THEN <<>>
    ELSE IF Head(cs).id = commentId THEN FilterPar(Tail(par), Tail(cs), commentId)
         ELSE <<Head(par)>> \o FilterPar(Tail(par), Tail(cs), commentId)

\* counts that agree with the likes as they stand
CountsOf(cs) ==
    IF cs = <<>> THEN <<>>
    ELSE [k \in 1..Len(cs) |-> [u \in Users |-> IF Includes(cs[k].likes, u) THEN 1 ELSE 0]]

\* the per-comment counts after call o commits on comments cs
CCntAfter(par, cs, o) ==
    IF Len(par) # Len(cs) THEN par
    ELSE IF o.kind = "addComment" THEN Append(par, NoCount)
    ELSE IF o.kind = "deleteComment" THEN FilterPar(par, cs, o.cid)
    ELSE IF o.kind = "toggleCommentLike" /\ cs # <<>>
         THEN [k \in 1..Len(cs) |-> IF cs[k].id = o.cid THEN Count(par[k], o.uid) ELSE par[k]]
    ELSE par

\* createPost's post object: empty likes and comments, both stamps the same instant
FreshPost(uid, name, photo, url, t) ==
    [exists |-> TRUE, title |-> "title", content |-> "body", authorId |-> uid,
     authorName |-> name, authorPhotoURL |-> photo, imageUrl |-> url,
     createdAt |-> t, updatedAt |-> t, likes |-> <<>>, comments |-> <<>>]

\* ------------------------------------------------------------ initial state
\* The app starts on a store that holds no post yet or one post as createPost
\* leaves it; client d1 is signed in, d2 is signed in as either user or signed out.
Init ==
    /\ \E first \in {NoDoc} \cup {FreshPost(u, "n1", NoPhoto, NoImage, 1) : u \in Users} :
         /\ posts = [p \in PostIds |-> IF p = "p1" THEN first ELSE NoDoc]
         /\ serial = posts
         /\ usedIds = IF first.exists THEN {"p1"} ELSE {}
    /\ blobs = {}
    /\ now = 1
    /\ currentUser \in {f \in [Clients -> Users \cup {NoUser}] : f["d1"] = "A"}
    /\ identity = [u \in Users |-> [displayName |-> "n1", photoURL |-> NoPhoto]]
    /\ op = [i \in Clients |-> IdleOp]
    /\ res = [i \in Clients |-> "none"]
    /\ opsLeft = MaxOps
    /\ likeCnt = [p \in PostIds |-> NoCount]
    /\ cLikeCnt = [p \in PostIds |-> <<>>]
    /\ shown = {}
    /\ staleWrites = {}
    /\ accounts = [u \in Users |-> FreshAccount]
    /\ view = [i \in Clients |-> NoView]

\* --------------------------------------------------------------- guards
Idle(i)     == op[i].pc = "idle"
SignedIn(i) == currentUser[i] # NoUser
Budget      == opsLeft > 0

InFlight(kind, p) ==
    Cardinality({j \in Clients : op[j].pc # "idle" /\ op[j].kind = kind /\ op[j].post = p})

\* the comment is on a screen: CommentItem renders it from a loaded post
OnScreen(p, commentId) == \E s \in shown : s.post = p /\ s.id = commentId

\* CommentItem: isMyComment = user && comment.authorId === user.uid
isMyComment(i, p, commentId) ==
    /\ SignedIn(i)
    /\ \E s \in shown : s.post = p /\ s.id = commentId /\ s.authorId = currentUser[i]

Begin(i, o) ==
    /\ op' = [op EXCEPT ![i] = o]
    /\ res' = [res EXCEPT ![i] = "none"]
    /\ opsLeft' = opsLeft - 1

\* a write to the posts in `written` supersedes what the other calls read of them
Invalidate(o, written) ==
    IF o.pc = "commit" THEN [o EXCEPT !.stale = @ \cup (written \cap {o.post})]
    ELSE IF o.pc = "fo_commit" THEN [o EXCEPT !.stale = @ \cup written]
    ELSE o

\* the call returns: its ApiResponse, and what its write supersedes
Returned(o) == [o EXCEPT !.pc = "idle", !.arg = <<>>, !.write = <<>>, !.stale = {}]

Finish(i, result, written) ==
    /\ op' = [j \in Clients |-> IF j = i THEN Returned(op[i]) ELSE Invalidate(op[j], written)]
    /\ res' = [res EXCEPT ![i] = result]

\* runTransaction re-runs the update function when the document it read was written since
ConflictIgnored(o) == FALSE
Conflict(o) == o.stale # {}

\* ------------------------------------------- PostService: the six mutations
\* handleLike -> PostService.toggleLike(postId, currentUser.uid)
ToggleLike(i, p) ==
    /\ Idle(i) /\ SignedIn(i) /\ Budget /\ p \in usedIds
    /\ Begin(i, [IdleOp EXCEPT !.kind = "toggleLike", !.pc = "txn", !.post = p,
                                !.uid = currentUser[i]])
    /\ UNCHANGED <<posts, usedIds, blobs, now, currentUser, identity,
                   serial, likeCnt, cLikeCnt, shown, staleWrites, accounts, view>>

\* handleAddComment -> PostService.addComment(post.id, commentData)
AddComment(i, p, content) ==
    /\ Idle(i) /\ SignedIn(i) /\ Budget /\ p \in usedIds
    /\ posts[p].exists => Len(posts[p].comments) + InFlight("addComment", p) < MaxComments
    /\ LET u == currentUser[i]
       IN Begin(i, [IdleOp EXCEPT !.kind = "addComment", !.pc = "txn", !.post = p, !.uid = u,
                      !.arg = NewComment(now, u, identity[u].displayName,
                                         identity[u].photoURL, content)])
    /\ UNCHANGED <<posts, usedIds, blobs, now, currentUser, identity,
                   serial, likeCnt, cLikeCnt, shown, staleWrites, accounts, view>>

\* handleCommentLike -> PostService.toggleCommentLike(postId, comment.id, user.uid)
ToggleCommentLike(i, p, commentId) ==
    /\ Idle(i) /\ SignedIn(i) /\ Budget /\ OnScreen(p, commentId)
    /\ Begin(i, [IdleOp EXCEPT !.kind = "toggleCommentLike", !.pc = "txn", !.post = p,
                                !.cid = commentId, !.uid = currentUser[i]])
    /\ UNCHANGED <<posts, usedIds, blobs, now, currentUser, identity,
                   serial, likeCnt, cLikeCnt, shown, staleWrites, accounts, view>>

\* edit button (isMyComment) -> handleEditComment -> PostService.updateComment
UpdateComment(i, p, commentId, newContent) ==
    /\ Idle(i) /\ Budget /\ isMyComment(i, p, commentId)
    /\ Begin(i, [IdleOp EXCEPT !.kind = "updateComment", !.pc = "txn", !.post = p,
                                !.cid = commentId, !.uid = currentUser[i],
                                !.arg = newContent])
    /\ UNCHANGED <<posts, usedIds, blobs, now, currentUser, identity,
                   serial, likeCnt, cLikeCnt, shown, staleWrites, accounts, view>>

\* delete button (isMyComment) -> handleDeleteComment -> PostService.deleteComment
DeleteComment(i, p, commentId) ==
    /\ Idle(i) /\ Budget /\ isMyComment(i, p, commentId)
    /\ Begin(i, [IdleOp EXCEPT !.kind = "deleteComment", !.pc = "txn", !.post = p,
                                !.cid = commentId, !.uid = currentUser[i]])
    /\ UNCHANGED <<posts, usedIds, blobs, now, currentUser, identity,
                   serial, likeCnt, cLikeCnt, shown, staleWrites, accounts, view>>

\* handleAddReply -> PostService.addReply(postId, comment.id, replyData)
AddReply(i, p, commentId, content) ==
    /\ Idle(i) /\ SignedIn(i) /\ Budget /\ OnScreen(p, commentId)
    /\ posts[p].exists =>
         \A k \in 1..Len(posts[p].comments) :
            posts[p].comments[k].id = commentId =>
               Len(posts[p].comments[k].replies) + InFlight("addReply", p) < MaxReplies
    /\ LET u == currentUser[i]
       IN Begin(i, [IdleOp EXCEPT !.kind = "addReply", !.pc = "txn", !.post = p,
                      !.cid = commentId, !.uid = u,
                      !.arg = NewReply(now, u, identity[u].displayName,
                                       identity[u].photoURL, content)])
    /\ UNCHANGED <<posts, usedIds, blobs, now, currentUser, identity,
                   serial, likeCnt, cLikeCnt, shown, staleWrites, accounts, view>>

\* catch (error): { success: false, error: error.message }
NotFoundSwallowed == "ok"
NotFoundResult == NotFound

\* transaction.get(postRef), then the update function on what it read
TxnRead(i) ==
    /\ op[i].pc = "txn"
    /\ IF ~posts[op[i].post].exists
       THEN \* throw new Error(not found): the call returns success: false
            /\ op' = [op EXCEPT ![i] = Returned(op[i])]
            /\ res' = [res EXCEPT ![i] = NotFoundResult]
       ELSE /\ op' = [op EXCEPT ![i] = [op[i] EXCEPT !.pc = "commit", !.stale = {},
                                           !.write = MutationUpdate(op[i], posts[op[i].post])]]
            /\ UNCHANGED res
    /\ UNCHANGED <<posts, usedIds, blobs, now, currentUser, identity, opsLeft,
                   serial, likeCnt, cLikeCnt, shown, staleWrites, accounts, view>>

\* the commit is refused: the transaction runs again from its read
TxnRetry(i) ==
    /\ op[i].pc = "commit"
    /\ Conflict(op[i])
    /\ op' = [op EXCEPT ![i] = [@ EXCEPT !.pc = "txn", !.stale = {}, !.write = <<>>,
                                       !.retried = TRUE]]
    /\ UNCHANGED <<posts, usedIds, blobs, now, currentUser, identity, res, opsLeft,
                   serial, likeCnt, cLikeCnt, shown, staleWrites, accounts, view>>

\* the commit is accepted: the buffered update is written, the call returns success
TxnCommit(i) ==
    /\ op[i].pc = "commit"
    /\ ~Conflict(op[i])
    /\ LET o == op[i]
           p == o.post
       IN /\ posts' = [posts EXCEPT ![p] = ApplyWrite(@, o.write)]
          /\ serial' = [serial EXCEPT ![p] = ApplyWrite(@, MutationUpdate(o, @))]
          /\ likeCnt' = IF o.kind = "toggleLike"
                        THEN [likeCnt EXCEPT ![p] = Count(@, o.uid)] ELSE likeCnt
          /\ cLikeCnt' = [cLikeCnt EXCEPT ![p] = CCntAfter(@, posts[p].comments, o)]
          /\ shown' = shown \cup ShownOf(p, posts'[p])
          /\ staleWrites' = IF o.write.field = "comments"
                                 /\ o.write # MutationUpdate(o, posts[p])
                            THEN staleWrites \cup {p} ELSE staleWrites
          /\ Finish(i, "ok", {p})
    /\ UNCHANGED <<usedIds, blobs, now, currentUser, identity, opsLeft, accounts, view>>

\* the clock advances
Tick ==
    /\ now < MaxTime
    /\ now' = now + 1
    /\ UNCHANGED <<posts, usedIds, blobs, currentUser, identity, op, res, opsLeft,
                   serial, likeCnt, cLikeCnt, shown, staleWrites, accounts, view>>

\* ------------------------------------------- PostService: create and delete
\* uploadImage: the download URL of the stored file, or null when the upload throws;
\* createPost: imageUrl only when an image was given and uploadImage returned a URL
UploadedUrlAlways(img, file) == file
UploadedUrl(img, file) == IF img = "ok" THEN file ELSE NoImage

\* createPost up to its store write: the image upload (swallowed when it fails) and
\* the post object.  img: "none" (no image given), "ok" (uploaded), "failed".
CreatePost(i, img) ==
    /\ Idle(i) /\ SignedIn(i) /\ Budget
    /\ Cardinality(usedIds) + Cardinality({j \in Clients : op[j].pc = "cp_add"})
          < Cardinality(PostIds)
    /\ LET u    == currentUser[i]
           file == opsLeft
           url  == UploadedUrl(img, file)
       IN /\ blobs' = IF img = "ok" THEN blobs \cup {file} ELSE blobs
          /\ Begin(i, [IdleOp EXCEPT !.kind = "createPost", !.pc = "cp_add", !.uid = u,
                         !.io = img,
                         !.arg = FreshPost(u, identity[u].displayName,
                                           identity[u].photoURL, url, now)])
    /\ UNCHANGED <<posts, usedIds, now, currentUser, identity,
                   serial, likeCnt, cLikeCnt, shown, staleWrites, accounts, view>>

\* the identifiers add() may assign: those the store has not assigned before
FreeIdsReused == {q \in PostIds : ~posts[q].exists}
FreeIds == PostIds \ usedIds

\* collection(POSTS).add(post): the store assigns an unused identifier
CpAdd(i) ==
    /\ op[i].pc = "cp_add"
    /\ LET p == CHOOSE q \in FreeIds : TRUE
       IN /\ posts' = [posts EXCEPT ![p] = op[i].arg]
          /\ serial' = [serial EXCEPT ![p] = op[i].arg]
          /\ usedIds' = usedIds \cup {p}
          \* return { success: true, data: docRef.id }
          /\ op' = [j \in Clients |-> IF j = i THEN [Returned(op[i]) EXCEPT !.post = p]
                                       ELSE Invalidate(op[j], {p})]
          /\ res' = [res EXCEPT ![i] = "ok"]
    /\ UNCHANGED <<blobs, now, currentUser, identity, opsLeft,
                   likeCnt, cLikeCnt, shown, staleWrites, accounts, view>>

\* deletePost: the session check
DeletePost(i, p) ==
    /\ Idle(i) /\ Budget /\ p \in usedIds
    /\ opsLeft' = opsLeft - 1
    /\ IF ~SignedIn(i)
       THEN /\ res' = [res EXCEPT ![i] = LoginRequired]
            /\ op' = [op EXCEPT ![i] = [IdleOp EXCEPT !.kind = "deletePost", !.post = p]]
       ELSE /\ res' = [res EXCEPT ![i] = "none"]
            /\ op' = [op EXCEPT ![i] = [IdleOp EXCEPT !.kind = "deletePost", !.pc = "dp_get",
                                          !.post = p, !.uid = currentUser[i]]]
    /\ UNCHANGED <<posts, usedIds, blobs, now, currentUser, identity,
                   serial, likeCnt, cLikeCnt, shown, staleWrites, accounts, view>>

\* the author check: postData?.authorId !== currentUser.uid
NotAuthorAnyone(doc, uid) == FALSE
NotAuthor(doc, uid) == doc.authorId # uid

\* deletePost: read the post, check that it exists and that the caller wrote it
DpGet(i) ==
    /\ op[i].pc = "dp_get"
    /\ LET doc == posts[op[i].post]
       IN IF ~doc.exists \/ NotAuthor(doc, op[i].uid)
          THEN /\ op' = [op EXCEPT ![i] = Returned(op[i])]
               /\ res' = [res EXCEPT ![i] = IF ~doc.exists THEN NotFound ELSE NotAuthorised]
          ELSE /\ op' = [op EXCEPT ![i] =
                           [@ EXCEPT !.pc = IF doc.imageUrl # NoImage THEN "dp_img" ELSE "dp_del",
                                     !.cid = doc.imageUrl]]
               /\ UNCHANGED res
    /\ UNCHANGED <<posts, usedIds, blobs, now, currentUser, identity, opsLeft,
                   serial, likeCnt, cLikeCnt, shown, staleWrites, accounts, view>>

\* deletePost: delete the attached image; a failure is logged and ignored
DpImgAborts(i, ok) ==
    /\ op[i].pc = "dp_img"
    /\ blobs' = IF ok THEN blobs \ {op[i].cid} ELSE blobs
    /\ op' = [op EXCEPT ![i] = [@ EXCEPT !.pc = IF ok THEN "dp_del" ELSE "idle",
                                       !.io = IF ok THEN "ok" ELSE "failed"]]
    /\ UNCHANGED <<posts, usedIds, now, currentUser, identity, res, opsLeft,
                   serial, likeCnt, cLikeCnt, shown, staleWrites, accounts, view>>
DpImg(i, ok) ==
    /\ op[i].pc = "dp_img"
    /\ blobs' = IF ok THEN blobs \ {op[i].cid} ELSE blobs
    /\ op' = [op EXCEPT ![i] = [@ EXCEPT !.pc = "dp_del",
                                       !.io = IF ok THEN "ok" ELSE "failed"]]
    /\ UNCHANGED <<posts, usedIds, now, currentUser, identity, res, opsLeft,
                   serial, likeCnt, cLikeCnt, shown, staleWrites, accounts, view>>

\* deletePost: delete the document; when the store refuses (ok = FALSE) the catch
\* returns success: false
DpDel(i, ok) ==
    /\ op[i].pc = "dp_del"
    /\ LET p == op[i].post
       IN IF ok
          THEN /\ posts' = [posts EXCEPT ![p] = NoDoc]
               /\ serial' = [serial EXCEPT ![p] = NoDoc]
               /\ likeCnt' = [likeCnt EXCEPT ![p] = NoCount]
               /\ cLikeCnt' = [cLikeCnt EXCEPT ![p] = <<>>]
               /\ Finish(i, "ok", {p})
          ELSE /\ Finish(i, StoreError, {})
               /\ UNCHANGED <<posts, serial, likeCnt, cLikeCnt>>
    /\ UNCHANGED <<usedIds, blobs, now, currentUser, identity, opsLeft, shown, staleWrites, accounts, view>>

\* ------------------------------------------------ AuthService: profile changes
\* the calls of updateProfile before the fan-out, in order
ProfileWrites == <<"identity", "document">>

\* what updateProfile has written when the call named in `fails` throws ("none": no
\* call throws): the calls before it
WrittenBefore(fails) ==
    {ProfileWrites[k] : k \in {n \in 1..Len(ProfileWrites) :
                                 \A m \in 1..n : ProfileWrites[m] # fails}}

\* updateProfile({displayName}) up to the fan-out: currentUser.updateProfile sets the
\* identity's display name, then the users document is updated; when one of the two
\* throws the catch returns success: false.  (Both awaits are one step here: no other
\* call of this model reads the users document in between.)
UpdateProfile(i, name, fails) ==
    /\ Idle(i) /\ SignedIn(i) /\ Budget
    /\ LET u == currentUser[i]
           w == WrittenBefore(fails)
       IN /\ identity' = IF "identity" \in w
                         THEN [identity EXCEPT ![u].displayName = name] ELSE identity
          /\ accounts' = IF "document" \in w
                         THEN [accounts EXCEPT ![u].profile.displayName = name] ELSE accounts
          /\ opsLeft' = opsLeft - 1
          /\ IF fails = "none"
             THEN /\ op' = [op EXCEPT ![i] =
                              [IdleOp EXCEPT !.kind = "updateProfile", !.pc = "fo_scan",
                                             !.uid = u,
                                             !.arg = [field |-> "authorName", value |-> name]]]
                  /\ res' = [res EXCEPT ![i] = "none"]
             ELSE /\ op' = [op EXCEPT ![i] =
                              [IdleOp EXCEPT !.kind = "updateProfile", !.uid = u, !.io = fails]]
                  /\ res' = [res EXCEPT ![i] = StoreError]
    /\ UNCHANGED <<posts, usedIds, blobs, now, currentUser,
                   serial, likeCnt, cLikeCnt, shown, staleWrites, view>>

\* updateProfileImage up to the fan-out: the identity's photo URL
UpdateProfileImage(i, photo) ==
    /\ Idle(i) /\ SignedIn(i) /\ Budget
    /\ LET u == currentUser[i]
       IN /\ identity' = [identity EXCEPT ![u].photoURL = photo]
          /\ accounts' = [accounts EXCEPT ![u].profile.photoURL = photo]
          /\ Begin(i, [IdleOp EXCEPT !.kind = "updateProfileImage", !.pc = "fo_scan", !.uid = u,
                         !.arg = [field |-> "authorPhotoURL", value |-> photo]])
    /\ UNCHANGED <<posts, usedIds, blobs, now, currentUser,
                   serial, likeCnt, cLikeCnt, shown, staleWrites, view>>

\* catch (error) of updatePostsAuthorName / updatePostsAuthorPhoto: console.error only,
\* so updateProfile / updateProfileImage still return success
FanOutFailureRaised == StoreError
FanOutFailureResult == "ok"

\* updatePostsAuthorName / updatePostsAuthorPhoto: collection(POSTS).get() and the
\* batch built from it
\* When the get throws (ok = FALSE) the catch logs it and the profile call goes on
\* to return success.
FoScan(i, ok) ==
    /\ op[i].pc = "fo_scan"
    /\ IF ok
       THEN /\ op' = [op EXCEPT ![i] =
                       [@ EXCEPT !.pc = "fo_commit", !.stale = {}, !.io = "ok",
                                 !.write = [p \in PostIds |->
                                              IF posts[p].exists
                                              THEN FanOutWrites(posts[p], op[i].uid,
                                                                op[i].arg.field,
                                                                op[i].arg.value)
                                              ELSE <<>>]]]
            /\ UNCHANGED res
       ELSE /\ op' = [op EXCEPT ![i] = [Returned(op[i]) EXCEPT !.io = "failed"]]
            /\ res' = [res EXCEPT ![i] = FanOutFailureResult]
    /\ UNCHANGED <<posts, usedIds, blobs, now, currentUser, identity, opsLeft,
                   serial, likeCnt, cLikeCnt, shown, staleWrites, accounts, view>>

\* batch.commit(): every queued update or, when a document is gone, none (the error
\* is logged and the profile call still returns success)
\* ok = FALSE: the store refuses the batch for another reason.  Without a queued
\* update (updateCount = 0) batch.commit() is not called.
FoCommit(i, ok) ==
    /\ op[i].pc = "fo_commit"
    /\ LET o       == op[i]
           targets == {p \in PostIds : o.write[p] # <<>>}
           failed  == targets # {} /\ (~ok \/ \E p \in targets : ~posts[p].exists)
           written == IF failed THEN {} ELSE targets
       IN /\ ok \/ targets # {}
          /\ posts' = [p \in PostIds |->
                         IF p \in written THEN ApplyWrites(posts[p], o.write[p]) ELSE posts[p]]
          /\ serial' = [p \in PostIds |-> IF p \in written THEN posts'[p] ELSE serial[p]]
          /\ cLikeCnt' = [p \in PostIds |->
                            IF p \in written THEN CountsOf(posts'[p].comments)
                            ELSE cLikeCnt[p]]
          /\ shown' = shown \cup UNION {ShownOf(p, posts'[p]) : p \in written}
          /\ staleWrites' = staleWrites \cup
                              {p \in written :
                                 /\ WritesComments(o.write[p])
                                 /\ posts'[p].comments #
                                      FanOutComments(posts[p].comments, o.uid,
                                                     o.arg.field, o.arg.value)}
          /\ op' = [j \in Clients |->
                      IF j = i
                      THEN [Returned(o) EXCEPT !.io = IF failed THEN "failed" ELSE "ok"]
                      ELSE Invalidate(op[j], written)]
          /\ res' = [res EXCEPT ![i] = IF failed THEN FanOutFailureResult ELSE "ok"]
    /\ UNCHANGED <<usedIds, blobs, now, currentUser, identity, opsLeft, likeCnt,
                   accounts, view>>

\* ------------------------------------------------ PostService: the reads
\* A document written before a field existed lists the field in "absent".
Missing(x, f) == "absent" \in DOMAIN x /\ f \in x.absent

\* x.f || fallback
OrElse(x, f, fallback) == IF Missing(x, f) THEN fallback ELSE x[f]

\* { ...x, f: v }
With(x, f, v) ==
    [g \in DOMAIN x \cup {f} |->
        IF g = f THEN v ELSE IF g = "absent" THEN x.absent \ {f} ELSE x[g]]

\* s.map(F)
MapSeq(F(_), s) == IF s = <<>> THEN <<>> ELSE [k \in 1..Len(s) |-> F(s[k])]

\* new Date(isoString)
NewDate(v) == Date(v[2])

\* getPosts: { ...comment, createdAt: new Date(comment.createdAt) }
ListedComment(c) == With(c, "createdAt", NewDate(c.createdAt))

\* getPost, subscribeToPostUpdates: the reply and the comment, missing fields defaulted
ReadReply(r) ==
    With(With(r, "createdAt", NewDate(r.createdAt)), "likes", OrElse(r, "likes", <<>>))

ReadComment(c) ==
    With(With(With(With(c, "createdAt", NewDate(c.createdAt)),
                   "likes", OrElse(c, "likes", <<>>)),
              "replies", MapSeq(ReadReply, OrElse(c, "replies", <<>>))),
         "isEdited", OrElse(c, "isEdited", FALSE))

\* getMyPosts, getLikedPosts: the reply and the comment (no comment in the model
\* carries an updatedAt)
MineReply(r) ==
    With(With(r, "createdAt", NewDate(r.createdAt)), "updatedAt", Undefined)

MineComment(c) ==
    With(With(With(c, "createdAt", NewDate(c.createdAt)), "updatedAt", Undefined),
         "replies", MapSeq(MineReply, OrElse(c, "replies", <<>>)))

\* { id: doc.id, ...doc.data(), createdAt: ...toDate(), updatedAt: ...toDate(), comments }
PostView(p, doc, comments) ==
    With(With(With(With(doc, "id", p), "createdAt", Date(doc.createdAt)),
              "updatedAt", Date(doc.updatedAt)),
         "comments", comments)

ListedPost(p) == PostView(p, posts[p], MapSeq(ListedComment, posts[p].comments))
ReadPost(p)   == PostView(p, posts[p],
                          MapSeq(ReadComment, OrElse(posts[p], "comments", <<>>)))
MinePost(p)   == PostView(p, posts[p],
                          MapSeq(MineComment, OrElse(posts[p], "comments", <<>>)))

\* the document names in ascending order, and a snapshot's documents in that order
IdOrder == <<"p1", "p2">>

RECURSIVE Select(_, _)
Select(ids, keep) ==
    IF ids = <<>> THEN <<>>
    ELSE (IF Head(ids) \in keep THEN <<Head(ids)>> ELSE <<>>) \o Select(Tail(ids), keep)

RECURSIVE Reverse(_)
Reverse(s) == IF s = <<>> THEN <<>> ELSE Reverse(Tail(s)) \o <<Head(s)>>

\* .orderBy('createdAt', 'desc'): latest first, equal times by document name, also
\* descending
RECURSIVE StoreInsert(_, _)
StoreInsert(ids, p) ==
    IF ids = <<>> THEN <<p>>
    ELSE IF posts[Head(ids)].createdAt >= posts[p].createdAt
         THEN <<Head(ids)>> \o StoreInsert(Tail(ids), p)
         ELSE <<p>> \o ids

RECURSIVE OrderByCreatedAtDesc(_)
OrderByCreatedAtDesc(ids) ==
    IF ids = <<>> THEN <<>>
    ELSE StoreInsert(OrderByCreatedAtDesc(SubSeq(ids, 1, Len(ids) - 1)), ids[Len(ids)])

\* posts.sort((a, b) => b.createdAt.getTime() - a.createdAt.getTime()): stable;
\* SortInsert puts one more post into the part already sorted
RECURSIVE SortInsert(_, _)
SortInsert(sorted, x) ==
    IF sorted = <<>> THEN <<x>>
    ELSE IF Head(sorted).createdAt[2] >= x.createdAt[2]
         THEN <<Head(sorted)>> \o SortInsert(Tail(sorted), x)
         ELSE <<x>> \o sorted

RECURSIVE SortByCreatedAtDesc(_)
SortByCreatedAtDesc(s) ==
    IF s = <<>> THEN <<>>
    ELSE SortInsert(SortByCreatedAtDesc(SubSeq(s, 1, Len(s) - 1)), s[Len(s)])

\* the ApiResponse of a read
Ok(kind, data)      == [kind |-> kind, success |-> TRUE, data |-> data]
Failed(kind, error) == [kind |-> kind, success |-> FALSE, error |-> error]
TypeError == "cannot read property of undefined"

Stored == {p \in PostIds : posts[p].exists}

\* getPosts on the store as it is
GetPostsResult ==
    IF \E p \in Stored : Missing(posts[p], "comments")
    THEN Failed("getPosts", TypeError)
    ELSE Ok("getPosts", MapSeq(ListedPost, OrderByCreatedAtDesc(Reverse(Select(IdOrder, Stored)))))

\* getPost(postId)
GetPostResult(p) ==
    IF ~posts[p].exists THEN Failed("getPost", NotFound) ELSE Ok("getPost", ReadPost(p))

\* the list the snapshot listener of subscribeToPostUpdates hands to the callback
SnapshotList == MapSeq(ReadPost, OrderByCreatedAtDesc(Reverse(Select(IdOrder, Stored))))

\* getMyPosts(userId): .where('authorId', '==', userId), mapped, sorted on the client
GetMyPostsResult(userId) ==
    Ok("getMyPosts",
       SortByCreatedAtDesc(MapSeq(MinePost,
          Select(IdOrder, {p \in Stored : posts[p].authorId = userId}))))

\* getUserStatistics: what one document adds to the four totals
RECURSIVE CountBy(_, _)
CountBy(s, userId) ==
    IF s = <<>> THEN 0
    ELSE (IF Head(s).authorId = userId THEN 1 ELSE 0) + CountBy(Tail(s), userId)

RECURSIVE RepliesBy(_, _)
RepliesBy(cs, userId) ==
    IF cs = <<>> THEN 0
    ELSE CountBy(OrElse(Head(cs), "replies", <<>>), userId) + RepliesBy(Tail(cs), userId)

LikesOfAnyPost(doc, userId) == Len(doc.likes)
LikesOfOwnPost(doc, userId) == IF doc.authorId = userId THEN Len(doc.likes) ELSE 0

DocStatistics(doc, userId) ==
    [totalPosts    |-> IF doc.authorId = userId THEN 1 ELSE 0,
     totalLikes    |-> LikesOfOwnPost(doc, userId),
     totalComments |-> CountBy(OrElse(doc, "comments", <<>>), userId),
     totalReplies  |-> RepliesBy(OrElse(doc, "comments", <<>>), userId)]

\* allPostsSnapshot.docs.forEach(...)
RECURSIVE Statistics(_, _)
Statistics(ids, userId) ==
    IF ids = <<>>
    THEN [totalPosts |-> 0, totalLikes |-> 0, totalComments |-> 0, totalReplies |-> 0]
    ELSE LET d    == DocStatistics(posts[Head(ids)], userId)
             rest == Statistics(Tail(ids), userId)
         IN [totalPosts    |-> d.totalPosts + rest.totalPosts,
             totalLikes    |-> d.totalLikes + rest.totalLikes,
             totalComments |-> d.totalComments + rest.totalComments,
             totalReplies  |-> d.totalReplies + rest.totalReplies]

GetUserStatisticsResult(userId) ==
    Ok("getUserStatistics", Statistics(Select(IdOrder, Stored), userId))

\* A read: one store query, then the mapping; when the query throws (ok = FALSE) the
\* catch returns success: false with the error's message.
Read(i, kind, arg, result, ok) ==
    /\ Idle(i) /\ Budget
    /\ opsLeft' = opsLeft - 1
    /\ view' = [view EXCEPT ![i] =
                  With(IF ok THEN result ELSE Failed(kind, StoreError), "arg", arg)]
    /\ UNCHANGED <<posts, usedIds, blobs, now, currentUser, identity, op, res,
                   serial, likeCnt, cLikeCnt, shown, staleWrites, accounts>>

GetPosts(i, ok)                  == Read(i, "getPosts", <<>>, GetPostsResult, ok)
GetPost(i, p, ok)                == Read(i, "getPost", p, GetPostResult(p), ok)
GetMyPosts(i, userId, ok)        ==
    Read(i, "getMyPosts", userId, GetMyPostsResult(userId), ok)
GetUserStatistics(i, userId, ok) ==
    Read(i, "getUserStatistics", userId, GetUserStatisticsResult(userId), ok)

\* subscribeToPostUpdates(callback): registers the listener and returns onSnapshot's
\* unsubscribe function
SubscribeToPostUpdates(i) ==
    /\ Idle(i) /\ Budget
    /\ opsLeft' = opsLeft - 1
    /\ view' = [view EXCEPT ![i] = [kind |-> "subscribed", unsubscribe |-> TRUE]]
    /\ UNCHANGED <<posts, usedIds, blobs, now, currentUser, identity, op, res,
                   serial, likeCnt, cLikeCnt, shown, staleWrites, accounts>>

\* the listener runs on a snapshot of the collection: callback(posts)
Snapshot(i) ==
    /\ view[i].kind \in {"subscribed", "snapshot"}
    /\ view' = [view EXCEPT ![i] = [kind |-> "snapshot", data |-> SnapshotList]]
    /\ UNCHANGED <<posts, usedIds, blobs, now, currentUser, identity, op, res, opsLeft,
                   serial, likeCnt, cLikeCnt, shown, staleWrites, accounts>>

\* ------------------------------------------------------- HomeScreen
\* The mounted screen: posts is its useState list (what it displays), snapshot the
\* list the subscription's listener was last called with, called whether it was.
HomeView(list, called, snapshot) ==
    [kind |-> "home", posts |-> list, called |-> called, snapshot |-> snapshot]

\* loadPosts: PostService.getPosts() is called
LoadPosts(i) ==
    /\ Idle(i) /\ Budget
    /\ view[i].kind = "home"
    /\ Begin(i, [IdleOp EXCEPT !.kind = "loadPosts", !.pc = "lp_query"])
    /\ UNCHANGED <<posts, usedIds, blobs, now, currentUser, identity,
                   serial, likeCnt, cLikeCnt, shown, staleWrites, accounts, view>>

\* the store answers the query on the posts as they are now (ok = FALSE: it throws
\* and getPosts returns success: false); the response is on its way
LpQuery(i, ok) ==
    /\ op[i].pc = "lp_query"
    /\ op' = [op EXCEPT ![i] = [@ EXCEPT !.pc = "lp_reply",
                                       !.arg = IF ok THEN GetPostsResult
                                               ELSE Failed("getPosts", StoreError)]]
    /\ UNCHANGED <<posts, usedIds, blobs, now, currentUser, identity, res, opsLeft,
                   serial, likeCnt, cLikeCnt, shown, staleWrites, accounts, view>>

\* the await returns: if (result.success && result.data) setPosts(result.data),
\* else showError
LpReply(i) ==
    /\ op[i].pc = "lp_reply"
    /\ view' = [view EXCEPT ![i].posts = IF op[i].arg.success THEN op[i].arg.data ELSE @]
    /\ op' = [op EXCEPT ![i] = Returned(op[i])]
    /\ res' = [res EXCEPT ![i] = IF op[i].arg.success THEN "ok" ELSE op[i].arg.error]
    /\ UNCHANGED <<posts, usedIds, blobs, now, currentUser, identity, opsLeft,
                   serial, likeCnt, cLikeCnt, shown, staleWrites, accounts>>

\* the subscription's listener is called with the collection as it is now, which the
\* screen has not been given yet: setPosts(updatedPosts)
HomeSnapshot(i) ==
    /\ view[i].kind = "home"
    /\ ~view[i].called \/ view[i].snapshot # SnapshotList
    /\ view' = [view EXCEPT ![i] = HomeView(SnapshotList, TRUE, SnapshotList)]
    /\ UNCHANGED <<posts, usedIds, blobs, now, currentUser, identity, op, res, opsLeft,
                   serial, likeCnt, cLikeCnt, shown, staleWrites, accounts>>

\* ------------------------------------- AuthService: password and account
\* what changePassword and deleteAccount leave alone
postVars == <<posts, usedIds, blobs, now, identity, serial, likeCnt, cLikeCnt, shown,
              staleWrites, view>>

\* reauthenticateWithCredential(EmailAuthProvider.credential(email, password)): the
\* identity provider accepts the password the identity has now
ReauthenticatedAlways(u, password) == TRUE
Reauthenticated(u, password) == accounts[u].exists /\ accounts[u].password = password

\* changePassword / deleteAccount: the session check
SensitiveCall(i, kind, first, passwords) ==
    /\ Idle(i) /\ Budget
    /\ opsLeft' = opsLeft - 1
    /\ IF ~SignedIn(i)
       THEN /\ res' = [res EXCEPT ![i] = LoginRequired]
            /\ op' = [op EXCEPT ![i] = [IdleOp EXCEPT !.kind = kind]]
       ELSE /\ res' = [res EXCEPT ![i] = "none"]
            /\ op' = [op EXCEPT ![i] = [IdleOp EXCEPT !.kind = kind, !.pc = first,
                                          !.uid = currentUser[i], !.arg = passwords]]
    /\ UNCHANGED <<currentUser, accounts>>
    /\ UNCHANGED postVars

\* the re-authentication step of both calls; io records whether the supplied password
\* was the identity's
Reauth(i, from, next) ==
    /\ op[i].pc = from
    /\ LET o     == op[i]
           right == accounts[o.uid].exists /\ accounts[o.uid].password = o.arg[1]
           io    == IF right THEN "ok" ELSE "failed"
       IN IF Reauthenticated(o.uid, o.arg[1])
          THEN /\ op' = [op EXCEPT ![i] = [o EXCEPT !.pc = next, !.io = io]]
               /\ UNCHANGED res
          ELSE /\ op' = [op EXCEPT ![i] = [Returned(o) EXCEPT !.io = io]]
               /\ res' = [res EXCEPT ![i] = ReauthFailed]
    /\ UNCHANGED <<currentUser, accounts, opsLeft>>
    /\ UNCHANGED postVars

ChangePassword(i, currentPassword, newPassword) ==
    SensitiveCall(i, "changePassword", "pw_reauth", <<currentPassword, newPassword>>)

PwReauth(i) == Reauth(i, "pw_reauth", "pw_update")

\* currentUser.updatePassword(newPassword); the provider may refuse it
PwUpdate(i, ok) ==
    /\ op[i].pc = "pw_update"
    /\ LET o == op[i]
       IN IF ok /\ accounts[o.uid].exists
          THEN /\ accounts' = [accounts EXCEPT ![o.uid].password = o.arg[2]]
               /\ res' = [res EXCEPT ![i] = "ok"]
          ELSE /\ UNCHANGED accounts
               /\ res' = [res EXCEPT ![i] = StoreError]
    /\ op' = [op EXCEPT ![i] = Returned(op[i])]
    /\ UNCHANGED <<currentUser, opsLeft>>
    /\ UNCHANGED postVars

DeleteAccount(i, password) ==
    SensitiveCall(i, "deleteAccount", "da_reauth", <<password>>)

DaReauth(i) == Reauth(i, "da_reauth", "da_doc")

\* collection(USERS).doc(uid).delete()
DaDoc(i, ok) ==
    /\ op[i].pc = "da_doc"
    /\ IF ok
       THEN /\ accounts' = [accounts EXCEPT ![op[i].uid].profile.exists = FALSE]
            /\ op' = [op EXCEPT ![i] = [@ EXCEPT !.pc = "da_auth"]]
            /\ UNCHANGED res
       ELSE /\ UNCHANGED accounts
            /\ op' = [op EXCEPT ![i] = Returned(op[i])]
            /\ res' = [res EXCEPT ![i] = StoreError]
    /\ UNCHANGED <<currentUser, opsLeft>>
    /\ UNCHANGED postVars

\* currentUser.delete(): the identity is gone and the client is signed out
DaAuth(i, ok) ==
    /\ op[i].pc = "da_auth"
    /\ IF ok /\ accounts[op[i].uid].exists
       THEN /\ accounts' = [accounts EXCEPT ![op[i].uid].exists = FALSE]
            /\ currentUser' = [currentUser EXCEPT ![i] = NoUser]
            /\ res' = [res EXCEPT ![i] = "ok"]
       ELSE /\ UNCHANGED <<accounts, currentUser>>
            /\ res' = [res EXCEPT ![i] = StoreError]
    /\ op' = [op EXCEPT ![i] = Returned(op[i])]
    /\ UNCHANGED opsLeft
    /\ UNCHANGED postVars

\* ------------------------------------------- AuthService: sign-in and sign-up
\* what signIn and signUp leave alone
storeVars == <<posts, usedIds, blobs, now, serial, likeCnt, cLikeCnt, shown,
               staleWrites, view>>

SignInFailed == "sign-in failed"
EmailInUse   == "email already in use"

\* no identity, no users document
NoAccount == [exists |-> FALSE, password |-> "pw1",
              profile |-> [exists |-> FALSE, displayName |-> "n1", photoURL |-> NoPhoto]]

\* signInWithEmailAndPassword: the identity provider accepts the identity's password
\* and the client is signed in; otherwise the catch returns success: false
SignIn(i, u, password) ==
    /\ Idle(i) /\ Budget
    /\ opsLeft' = opsLeft - 1
    /\ IF accounts[u].exists /\ accounts[u].password = password
       THEN /\ currentUser' = [currentUser EXCEPT ![i] = u]
            /\ op' = [op EXCEPT ![i] = [IdleOp EXCEPT !.kind = "signIn", !.pc = "si_get",
                                                      !.uid = u]]
            /\ res' = [res EXCEPT ![i] = "none"]
       ELSE /\ UNCHANGED currentUser
            /\ op' = [op EXCEPT ![i] = [IdleOp EXCEPT !.kind = "signIn", !.uid = u]]
            /\ res' = [res EXCEPT ![i] = SignInFailed]
    /\ UNCHANGED <<identity, accounts>>
    /\ UNCHANGED storeVars

\* collection(USERS).doc(uid).get(): the document is returned when it exists,
\* otherwise userData is built from the identity's fields
SiGet(i, ok) ==
    /\ op[i].pc = "si_get"
    /\ LET u == op[i].uid
       IN IF ~ok
          THEN /\ op' = [op EXCEPT ![i] = Returned(op[i])]
               /\ res' = [res EXCEPT ![i] = StoreError]
          ELSE IF accounts[u].profile.exists
          THEN /\ op' = [op EXCEPT ![i] = [Returned(op[i]) EXCEPT !.io = "found"]]
               /\ res' = [res EXCEPT ![i] = "ok"]
          ELSE /\ op' = [op EXCEPT ![i] =
                           [@ EXCEPT !.pc = "si_set",
                                     !.arg = [exists |-> TRUE,
                                              displayName |-> identity[u].displayName,
                                              photoURL |-> identity[u].photoURL]]]
               /\ UNCHANGED res
    /\ UNCHANGED <<currentUser, identity, accounts, opsLeft>>
    /\ UNCHANGED storeVars

\* collection(USERS).doc(uid).set(userData)
SiSet(i, ok) ==
    /\ op[i].pc = "si_set"
    /\ IF ok
       THEN /\ accounts' = [accounts EXCEPT ![op[i].uid].profile = op[i].arg]
            /\ op' = [op EXCEPT ![i] = [Returned(op[i]) EXCEPT !.io = "created"]]
            /\ res' = [res EXCEPT ![i] = "ok"]
       ELSE /\ UNCHANGED accounts
            /\ op' = [op EXCEPT ![i] = Returned(op[i])]
            /\ res' = [res EXCEPT ![i] = StoreError]
    /\ UNCHANGED <<currentUser, identity, opsLeft>>
    /\ UNCHANGED storeVars

\* createUserWithEmailAndPassword: a new identity (no display name, no photo) unless
\* the email has one; the client is signed in as it
SignUp(i, u, password, name) ==
    /\ Idle(i) /\ Budget
    /\ opsLeft' = opsLeft - 1
    /\ IF ~accounts[u].exists
       THEN /\ accounts' = [accounts EXCEPT ![u].exists = TRUE, ![u].password = password]
            /\ identity' = [identity EXCEPT ![u] = [displayName |-> "", photoURL |-> NoPhoto]]
            /\ currentUser' = [currentUser EXCEPT ![i] = u]
            /\ op' = [op EXCEPT ![i] = [IdleOp EXCEPT !.kind = "signUp", !.pc = "su_profile",
                                                      !.uid = u, !.arg = name]]
            /\ res' = [res EXCEPT ![i] = "none"]
       ELSE /\ UNCHANGED <<accounts, identity, currentUser>>
            /\ op' = [op EXCEPT ![i] = [IdleOp EXCEPT !.kind = "signUp", !.uid = u]]
            /\ res' = [res EXCEPT ![i] = EmailInUse]
    /\ UNCHANGED storeVars

\* firebaseUser.updateProfile({ displayName })
SuProfile(i, ok) ==
    /\ op[i].pc = "su_profile"
    /\ IF ok
       THEN /\ identity' = [identity EXCEPT ![op[i].uid].displayName = op[i].arg]
            /\ op' = [op EXCEPT ![i] = [@ EXCEPT !.pc = "su_set"]]
            /\ UNCHANGED res
       ELSE /\ UNCHANGED identity
            /\ op' = [op EXCEPT ![i] = Returned(op[i])]
            /\ res' = [res EXCEPT ![i] = StoreError]
    /\ UNCHANGED <<currentUser, accounts, opsLeft>>
    /\ UNCHANGED storeVars

\* collection(USERS).doc(uid).set(userData): displayName as given, photoURL of the
\* identity
SuSet(i, ok) ==
    /\ op[i].pc = "su_set"
    /\ LET u == op[i].uid
       IN IF ok
          THEN /\ accounts' = [accounts EXCEPT ![u].profile =
                                  [exists |-> TRUE, displayName |-> op[i].arg,
                                   photoURL |-> identity[u].photoURL]]
               /\ op' = [op EXCEPT ![i] = [Returned(op[i]) EXCEPT !.io = "created"]]
               /\ res' = [res EXCEPT ![i] = "ok"]
          ELSE /\ UNCHANGED accounts
               /\ op' = [op EXCEPT ![i] = Returned(op[i])]
               /\ res' = [res EXCEPT ![i] = StoreError]
    /\ UNCHANGED <<currentUser, identity, opsLeft>>
    /\ UNCHANGED storeVars

\* ------------------------------------------------------------ specification
\* a step of some client's call
Calls ==
    \E i \in Clients :
       \/ \E p \in PostIds :
            \/ ToggleLike(i, p)
            \/ DeletePost(i, p)
            \/ \E content \in Drafts : AddComment(i, p, content)
            \/ \E c \in Times :
                 \/ ToggleCommentLike(i, p, c)
                 \/ DeleteComment(i, p, c)
                 \/ \E content \in Contents : UpdateComment(i, p, c, content)
                 \/ \E content \in Drafts : AddReply(i, p, c, content)
       \/ TxnRead(i) \/ TxnRetry(i) \/ TxnCommit(i)
       \/ \E img \in {"none", "ok", "failed"} : CreatePost(i, img)
       \/ CpAdd(i)
       \/ DpGet(i)
       \/ \E ok \in BOOLEAN : DpImg(i, ok)
       \/ \E ok \in BOOLEAN : DpDel(i, ok)
       \/ \E name \in Names, fails \in {"none", "identity", "document"} :
            UpdateProfile(i, name, fails)
       \/ \E photo \in Photos : UpdateProfileImage(i, photo)
       \/ \E ok \in BOOLEAN : FoScan(i, ok) \/ FoCommit(i, ok)

Next == Tick \/ Calls

Spec == Init /\ [][Next]_vars

\* ------------------------------------------------ the mutations on their own
\* One existing post and signed-in clients issuing the six PostService mutations.
InitPS ==
    /\ \E u \in Users :
         posts = [p \in PostIds |-> IF p = "p1" THEN FreshPost(u, "n1", NoPhoto, NoImage, 1)
                                   ELSE NoDoc]
    /\ serial = posts
    /\ usedIds = {"p1"}
    /\ blobs = {}
    /\ now = 1
    /\ currentUser \in {f \in [Clients -> Users] : f["d1"] = "A"}
    /\ identity = [u \in Users |-> [displayName |-> "n1", photoURL |-> NoPhoto]]
    /\ op = [i \in Clients |-> IdleOp]
    /\ res = [i \in Clients |-> "none"]
    /\ opsLeft = MaxMutations
    /\ likeCnt = [p \in PostIds |-> NoCount]
    /\ cLikeCnt = [p \in PostIds |-> <<>>]
    /\ shown = {}
    /\ staleWrites = {}
    /\ accounts = [u \in Users |-> FreshAccount]
    /\ view = [i \in Clients |-> NoView]

NextPS ==
    \/ Tick
    \/ \E i \in Clients :
         \/ \E p \in PostIds :
              \/ ToggleLike(i, p)
              \/ \E content \in Drafts : AddComment(i, p, content)
              \/ \E c \in Times :
                   \/ ToggleCommentLike(i, p, c)
                   \/ DeleteComment(i, p, c)
                   \/ \E content \in Contents : UpdateComment(i, p, c, content)
                   \/ \E content \in Drafts : AddReply(i, p, c, content)
         \/ TxnRead(i) \/ TxnRetry(i) \/ TxnCommit(i)

SpecPS == InitPS /\ [][NextPS]_vars

\* --------------------------- two users like the same comment at the same time
\* A post with comment 1 (and possibly another comment) that nobody likes yet;
\* client d1 (user A) and client d2 (user B) each call toggleCommentLike on it once.
InitLike2 ==
    /\ \E u \in Users, v \in Users, others \in {<<>>} \cup {<<w>> : w \in Users} :
         LET c1   == NewComment(1, v, "n1", NoPhoto, "x")
             rest == IF others = <<>> THEN <<>>
                     ELSE <<NewComment(2, others[1], "n1", NoPhoto, "x")>>
         IN posts = [p \in PostIds |->
                       IF p = "p1"
                       THEN [FreshPost(u, "n1", NoPhoto, NoImage, 1)
                               EXCEPT !.comments = <<c1>> \o rest]
                       ELSE NoDoc]
    /\ serial = posts
    /\ usedIds = {"p1"}
    /\ blobs = {}
    /\ now = MaxTime
    /\ currentUser = [i \in Clients |-> IF i = "d1" THEN "A" ELSE "B"]
    /\ identity = [u \in Users |-> [displayName |-> "n1", photoURL |-> NoPhoto]]
    /\ op = [i \in Clients |-> IdleOp]
    /\ res = [i \in Clients |-> "none"]
    /\ opsLeft = Cardinality(Clients)
    /\ likeCnt = [p \in PostIds |-> NoCount]
    /\ cLikeCnt = [p \in PostIds |->
                     IF posts[p].exists THEN CountsOf(posts[p].comments) ELSE <<>>]
    /\ shown = ShownOf("p1", posts["p1"])
    /\ staleWrites = {}
    /\ accounts = [u \in Users |-> FreshAccount]
    /\ view = [i \in Clients |-> NoView]

NextLike2 ==
    \E i \in Clients :
       \/ op[i].kind = "idle" /\ ToggleCommentLike(i, "p1", 1)
       \/ TxnRead(i) \/ TxnRetry(i) \/ TxnCommit(i)

SpecLike2 == InitLike2 /\ [][NextLike2]_vars

\* ----------------------------------------- password change, account deletion
\* User A has signed up, user B has or has not; each client is signed in as one of
\* them (d1 as A) or signed out, and calls signIn, signUp, changePassword and
\* deleteAccount.
InitAuth ==
    /\ posts = [p \in PostIds |-> NoDoc]
    /\ serial = posts
    /\ usedIds = {}
    /\ blobs = {}
    /\ now = 1
    /\ accounts \in {f \in [Users -> {FreshAccount, NoAccount}] : f["A"] = FreshAccount}
    /\ currentUser \in {f \in [Clients -> Users \cup {NoUser}] :
                          /\ f["d1"] = "A"
                          /\ f["d2"] \in Users => accounts[f["d2"]].exists}
    /\ identity = [u \in Users |-> [displayName |-> "n1", photoURL |-> NoPhoto]]
    /\ op = [i \in Clients |-> IdleOp]
    /\ res = [i \in Clients |-> "none"]
    /\ opsLeft = MaxOps
    /\ likeCnt = [p \in PostIds |-> NoCount]
    /\ cLikeCnt = [p \in PostIds |-> <<>>]
    /\ shown = {}
    /\ staleWrites = {}
    /\ view = [i \in Clients |-> NoView]

NextAuth ==
    \E i \in Clients :
       \/ \E cur \in Passwords, new \in Passwords : ChangePassword(i, cur, new)
       \/ PwReauth(i)
       \/ \E ok \in BOOLEAN : PwUpdate(i, ok)
       \/ \E pw \in Passwords : DeleteAccount(i, pw)
       \/ DaReauth(i)
       \/ \E ok \in BOOLEAN : DaDoc(i, ok)
       \/ \E ok \in BOOLEAN : DaAuth(i, ok)
       \/ \E u \in Users, pw \in Passwords : SignIn(i, u, pw)
       \/ \E ok \in BOOLEAN : SiGet(i, ok) \/ SiSet(i, ok)
       \/ \E u \in Users, pw \in Passwords : SignUp(i, u, pw, "n1")
       \/ \E ok \in BOOLEAN : SuProfile(i, ok) \/ SuSet(i, ok)

SpecAuth == InitAuth /\ [][NextAuth]_vars

\* ------------------------------------- a post that already has a discussion
\* Post p1 by A with two comments, the first with two replies, all on both clients'
\* screens; the clients (d1 as A, d2 as either user) make up to MaxOrderOps calls.
MaxOrderOps == 2

InitOrder ==
    /\ LET r1 == NewReply(1, "B", "n1", NoPhoto, "x")
           r2 == NewReply(2, "A", "n1", NoPhoto, "x")
           c1 == [NewComment(1, "A", "n1", NoPhoto, "x") EXCEPT !.replies = <<r1, r2>>]
           c2 == NewComment(2, "B", "n1", NoPhoto, "x")
       IN posts = [p \in PostIds |->
                     IF p = "p1"
                     THEN [FreshPost("A", "n1", NoPhoto, NoImage, 1)
                             EXCEPT !.comments = <<c1, c2>>]
                     ELSE NoDoc]
    /\ serial = posts
    /\ usedIds = {"p1"}
    /\ blobs = {}
    /\ now = MaxTime
    /\ currentUser \in {f \in [Clients -> Users] : f["d1"] = "A"}
    /\ identity = [u \in Users |-> [displayName |-> "n1", photoURL |-> NoPhoto]]
    /\ op = [i \in Clients |-> IdleOp]
    /\ res = [i \in Clients |-> "none"]
    /\ opsLeft = MaxOrderOps
    /\ likeCnt = [p \in PostIds |-> NoCount]
    /\ cLikeCnt = [p \in PostIds |->
                     IF posts[p].exists THEN CountsOf(posts[p].comments) ELSE <<>>]
    /\ shown = ShownOf("p1", posts["p1"])
    /\ staleWrites = {}
    /\ accounts = [u \in Users |-> FreshAccount]
    /\ view = [i \in Clients |-> NoView]

SpecOrder == InitOrder /\ [][Calls]_vars

\* ------------------------------------------------ the home screen's list
\* A store with one post; both clients have the home screen mounted (empty list,
\* subscription open, no snapshot delivered yet), reload it and like posts.
MaxHomeOps == 3

InitHome ==
    /\ \E u \in Users :
         posts = [p \in PostIds |-> IF p = "p1" THEN FreshPost(u, "n1", NoPhoto, NoImage, 1)
                                   ELSE NoDoc]
    /\ serial = posts
    /\ usedIds = {"p1"}
    /\ blobs = {}
    /\ now = MaxTime
    /\ currentUser = [i \in Clients |-> IF i = "d1" THEN "A" ELSE "B"]
    /\ identity = [u \in Users |-> [displayName |-> "n1", photoURL |-> NoPhoto]]
    /\ op = [i \in Clients |-> IdleOp]
    /\ res = [i \in Clients |-> "none"]
    /\ opsLeft = MaxHomeOps
    /\ likeCnt = [p \in PostIds |-> NoCount]
    /\ cLikeCnt = [p \in PostIds |-> <<>>]
    /\ shown = {}
    /\ staleWrites = {}
    /\ accounts = [u \in Users |-> FreshAccount]
    /\ view = [i \in Clients |-> HomeView(<<>>, FALSE, <<>>)]

NextHome ==
    \E i \in Clients :
       \/ LoadPosts(i)
       \/ \E ok \in BOOLEAN : LpQuery(i, ok)
       \/ LpReply(i)
       \/ HomeSnapshot(i)
       \/ \E p \in PostIds : ToggleLike(i, p)
       \/ \E img \in {"none"} : CreatePost(i, img)
       \/ CpAdd(i)
       \/ TxnRead(i) \/ TxnRetry(i) \/ TxnCommit(i)

SpecHome == InitHome /\ [][NextHome]_vars

\* ------------------------------------------------------------ the reads
\* Stores of up to two posts as the operations leave them, their comments as
\* addComment / addReply write them or as an older version of the app wrote them
\* (without likes, replies, isEdited, or a post without comments); one read is made.
MaxReads == 1

ReadReplies == {<<>>} \cup {<<NewReply(2, v, "n1", NoPhoto, "x")>> : v \in Users}

ReadCommentsOf(u) ==
    LET c == NewComment(1, u, "n1", NoPhoto, "x")
    IN {<<[c EXCEPT !.replies = rs]>> : rs \in ReadReplies}
       \cup {<<With(c, "absent", a)>> : a \in {{"likes", "replies", "isEdited"}, {"isEdited"}}}

ReadCommentSeqs ==
    {<<>>} \cup UNION {ReadCommentsOf(u) : u \in Users}
    \cup {<<NewComment(1, "A", "n1", NoPhoto, "x"),
            [NewComment(2, "B", "n1", NoPhoto, "x")
               EXCEPT !.replies = <<NewReply(2, "A", "n1", NoPhoto, "x")>>]>>}

ReadDocs(likes, commentSeqs) ==
    LET base(u, t, l) == [FreshPost(u, "n1", NoPhoto, NoImage, t) EXCEPT !.likes = l]
    IN {NoDoc}
       \cup {[base(u, t, l) EXCEPT !.comments = cs] :
               u \in Users, t \in Times, l \in likes, cs \in commentSeqs}
       \cup {With(base(u, t, l), "absent", {"comments"}) :
               u \in Users, t \in Times, l \in likes}

InitRead ==
    /\ \E d1 \in ReadDocs({<<>>, <<"B">>}, ReadCommentSeqs),
          d2 \in ReadDocs({<<"A", "B">>},
                          {<<>>, <<[NewComment(1, "B", "n1", NoPhoto, "x")
                                      EXCEPT !.replies =
                                         <<NewReply(2, "A", "n1", NoPhoto, "x")>>]>>}) :
         posts = [p \in PostIds |-> IF p = "p1" THEN d1 ELSE d2]
    /\ serial = posts
    /\ usedIds = PostIds
    /\ blobs = {}
    /\ now = MaxTime
    /\ currentUser = [i \in Clients |-> IF i = "d1" THEN "A" ELSE "B"]
    /\ identity = [u \in Users |-> [displayName |-> "n1", photoURL |-> NoPhoto]]
    /\ op = [i \in Clients |-> IdleOp]
    /\ res = [i \in Clients |-> "none"]
    /\ opsLeft = MaxReads
    /\ likeCnt = [p \in PostIds |-> NoCount]
    /\ cLikeCnt = [p \in PostIds |-> <<>>]
    /\ shown = {}
    /\ staleWrites = {}
    /\ accounts = [u \in Users |-> FreshAccount]
    /\ view = [i \in Clients |-> NoView]

NextRead ==
    \E i \in Clients :
       \/ \E ok \in BOOLEAN :
            \/ GetPosts(i, ok)
            \/ \E p \in PostIds : GetPost(i, p, ok)
            \/ \E u \in Users : GetMyPosts(i, u, ok)
            \/ \E u \in Users : GetUserStatistics(i, u, ok)
       \/ SubscribeToPostUpdates(i)
       \/ Snapshot(i)

SpecRead == InitRead /\ [][NextRead]_vars

\* ================================================================== claims
Mutations == {"toggleLike", "addComment", "toggleCommentLike", "updateComment",
              "deleteComment", "addReply"}

NoDup(s) == \A a \in 1..Len(s) : \A b \in 1..Len(s) : a # b => s[a] # s[b]

Odd(n) == n % 2 = 1

\* client i's transaction commits in this step
Commits(i) == op[i].pc = "commit" /\ op'[i].pc = "idle" /\ res'[i] = "ok"

\* C1: concurrent PostService mutations on one post all return success, and the post
\* is what applying the committed mutations one at a time, in commit order, gives:
\* none is lost, none is applied twice.
C1_SerialOutcome ==
    /\ \A i \in Clients : res[i] \in {"none", "ok"}
    /\ \A p \in PostIds : posts[p] = serial[p]

\* two calls have returned success, one of them after its transaction was re-run
C1_Witness ==
    \E i \in Clients : \E j \in Clients \ {i} :
       /\ op[i].pc = "idle" /\ op[i].retried /\ res[i] = "ok"
       /\ op[j].pc = "idle" /\ op[j].kind \in Mutations /\ res[j] = "ok"
       /\ op[i].post = op[j].post

\* C2: users A and B, neither liking comment 1, call toggleCommentLike on it
\* concurrently: both calls return success and the comment's likes hold both.
C2_BothLiked ==
    /\ \A i \in Clients : res[i] \in {"none", "ok"}
    /\ (\A i \in Clients : res[i] = "ok") =>
          \A k \in 1..Len(posts["p1"].comments) :
             posts["p1"].comments[k].id = 1 =>
                /\ Includes(posts["p1"].comments[k].likes, "A")
                /\ Includes(posts["p1"].comments[k].likes, "B")

\* both calls have returned, one after a forced retry
C2_Witness ==
    /\ \A i \in Clients : res[i] = "ok" /\ op[i].kind = "toggleCommentLike"
    /\ \E i \in Clients : op[i].retried

\* C3: a user is in a likes list (of a post, of a comment) exactly when the number of
\* committed toggles by that user on it is odd, whatever other users toggle.
C3_LikeParity ==
    \A p \in PostIds : posts[p].exists =>
       /\ \A u \in Users : Includes(posts[p].likes, u) <=> Odd(likeCnt[p][u])
       /\ Len(cLikeCnt[p]) = Len(posts[p].comments)
       /\ \A k \in 1..Len(posts[p].comments) : \A u \in Users :
             Includes(posts[p].comments[k].likes, u) <=> Odd(cLikeCnt[p][k][u])

\* a user toggled twice and is out again, while another user's single like stays
C3_Witness ==
    \E p \in PostIds : \E u \in Users : \E v \in Users \ {u} :
       /\ posts[p].exists
       /\ likeCnt[p][u] = 2 /\ likeCnt[p][v] = 1
       /\ posts[p].likes = <<v>>

\* C4: no likes list, of a post, a comment or a reply, holds a user twice.
C4_LikesUnique ==
    \A p \in PostIds : posts[p].exists =>
       /\ NoDup(posts[p].likes)
       /\ \A k \in 1..Len(posts[p].comments) :
             /\ NoDup(posts[p].comments[k].likes)
             /\ \A r \in 1..Len(posts[p].comments[k].replies) :
                   NoDup(posts[p].comments[k].replies[r].likes)

\* a post and one of its comments are both liked
C4_Witness ==
    \E p \in PostIds :
       /\ posts[p].exists
       /\ Len(posts[p].likes) >= 1
       /\ \E k \in 1..Len(posts[p].comments) : Len(posts[p].comments[k].likes) >= 1

RECURSIVE AddReplies(_, _, _, _)
\* n addReply calls on comment commentId, one after the other
AddReplies(doc, commentId, reply, n) ==
    IF n = 0 THEN doc
    ELSE AddReplies(ApplyWrite(doc, AddReplyUpdate(doc, commentId, reply)),
                    commentId, reply, n - 1)

\* C5: from any state of a post, addComment, then addReply calls on the new comment,
\* then deleteComment of the new comment, run one after the other, leave the
\* comments sequence as it was before the addComment.
C5_AddDeleteRestores ==
    \A p \in PostIds : posts[p].exists =>
       \A u \in Users : \A content \in Drafts : \A n \in 0..MaxReplies :
          LET c       == NewComment(now, u, identity[u].displayName,
                                    identity[u].photoURL, content)
              r       == NewReply(now, u, identity[u].displayName,
                                  identity[u].photoURL, content)
              added   == ApplyWrite(posts[p], AddCommentUpdate(posts[p], c))
              replied == AddReplies(added, c.id, r, n)
              deleted == ApplyWrite(replied, DeleteCommentUpdate(replied, c.id))
          IN deleted.comments = posts[p].comments

\* C6: a committed updateComment sets the content and isEdited of the comment it
\* names, and a comment whose isEdited is true keeps it true while it exists.
C6_EditedStays ==
    [][\A p \in PostIds : (posts[p].exists /\ posts'[p].exists) =>
          LET cs == posts[p].comments
              ds == posts'[p].comments
          IN /\ \A i \in Clients :
                   (Commits(i) /\ op[i].kind = "updateComment" /\ op[i].post = p) =>
                      \A k \in 1..Len(ds) :
                         ds[k].id = op[i].cid =>
                            ds[k].content = op[i].arg /\ ds[k].isEdited
             /\ Len(ds) >= Len(cs) =>
                   \A k \in 1..Len(cs) :
                      (cs[k].isEdited /\ ds[k].id = cs[k].id
                                      /\ ds[k].authorId = cs[k].authorId) =>
                         ds[k].isEdited]_vars

\* C7: every write of a post's comments stores what its operation computes from the
\* comments as they are at the write, so no committed change to a comment is lost.
C7_NoStaleWrite == staleWrites = {}

\* C8: a mutation whose transaction finds the post missing returns the not-found
\* failure and writes nothing: no post is created or changed, no image is touched.
C8_MissingPostFails ==
    [][\A i \in Clients :
          (op[i].pc = "txn" /\ ~posts[op[i].post].exists /\ op'[i] # op[i]) =>
             /\ res'[i] = NotFound
             /\ op'[i].pc = "idle"
             /\ posts' = posts
             /\ blobs' = blobs]_vars

\* a mutation has returned not-found on a post that is gone
C8_Witness ==
    \E i \in Clients :
       /\ op[i].pc = "idle" /\ op[i].kind \in Mutations
       /\ res[i] = NotFound
       /\ ~posts[op[i].post].exists

\* C9: a post document is removed only by a deletePost of a signed-in caller whose
\* uid is the post's authorId; a deletePost that finds nobody signed in, no post, or
\* another author returns a failure and leaves the posts and the images as they were.
C9_OnlyAuthorDeletes ==
    [][/\ \A p \in PostIds :
            (posts[p].exists /\ ~posts'[p].exists) =>
               \E i \in Clients :
                  /\ op[i].pc = "dp_del" /\ op'[i].pc = "idle" /\ op[i].post = p
                  /\ op[i].uid # NoUser /\ op[i].uid = posts[p].authorId
       /\ \A i \in Clients :
            /\ (op[i].pc = "dp_get" /\ op'[i] # op[i]
                   /\ (~posts[op[i].post].exists
                          \/ posts[op[i].post].authorId # op[i].uid)) =>
                  res'[i] \in Refusals /\ op'[i].pc = "idle"
            /\ (res[i] \notin Failures /\ res'[i] \in Refusals
                   /\ op'[i].kind = "deletePost") =>
                  posts' = posts /\ blobs' = blobs]_vars

\* the author has deleted a post while another caller's deletePost was refused
C9_Witness ==
    \E i \in Clients : \E j \in Clients \ {i} :
       /\ op[i].pc = "idle" /\ op[i].kind = "deletePost" /\ res[i] = "ok"
       /\ ~posts[op[i].post].exists
       /\ op[j].pc = "idle" /\ op[j].kind = "deletePost" /\ res[j] \in Refusals

\* the ids of a returned list, and its order: latest creation first
IdsOf(list) == {list[k].id : k \in 1..Len(list)}

LatestFirst(list) ==
    \A a \in 1..Len(list) : \A b \in 1..Len(list) :
       a < b => list[a].createdAt[2] >= list[b].createdAt[2]

\* the comments of a stored post, none when the field is missing
CommentsOf(p) == OrElse(posts[p], "comments", <<>>)

\* C11: every public PostService operation returns a result that has a success flag
\* and, when it failed, a non-empty error message.
C11_UniformResult ==
    \A i \in Clients :
       view[i].kind \notin {"none", "snapshot"} =>
          /\ "success" \in DOMAIN view[i]
          /\ ~view[i].success => view[i].error # ""

\* the posts of a getPosts() result, none when it failed
PostsOf(result) == IF result.success THEN result.data ELSE <<>>

\* C12: the posts a successful getMyPosts(u) returns are, by id, the posts getPosts()
\* returns on the same store whose authorId is u, each once, latest creation first.
C12_MyPostsAreMine ==
    \A i \in Clients :
       (view[i].kind = "getMyPosts" /\ view[i].success) =>
          LET u    == view[i].arg
              mine == view[i].data
              all  == PostsOf(GetPostsResult)
          IN /\ IdsOf(mine) = {all[k].id : k \in {n \in 1..Len(all) : all[n].authorId = u}}
             /\ Len(mine) = Cardinality(IdsOf(mine))
             /\ LatestFirst(mine)

\* the same, on stores that hold no document of the older form
C12_MyPostsAreMineNoLegacy ==
    (\A p \in Stored : ~Missing(posts[p], "comments")) => C12_MyPostsAreMine

\* the fields C18 names are there
AllDefaulted(comments) ==
    \A k \in 1..Len(comments) :
       \A f \in {"likes", "replies", "isEdited"} : ~Missing(comments[k], f)

\* C18: on stored posts whose comments lack likes, replies or isEdited, or that lack
\* comments, getPosts and getPost succeed (the store answering, the post existing)
\* and return every comment with the three fields in place.
C18_ReadsDefault ==
    \A i \in Clients :
       /\ (view[i].kind = "getPost"
             /\ (view[i].success \/ view[i].error \notin {StoreError, NotFound})) =>
             view[i].success /\ AllDefaulted(view[i].data.comments)
       /\ (view[i].kind = "getPosts"
             /\ (view[i].success \/ view[i].error # StoreError)) =>
             /\ view[i].success
             /\ \A k \in 1..Len(view[i].data) : AllDefaulted(view[i].data[k].comments)

\* no stored post or comment is of the older form
NoLegacy ==
    \A p \in Stored :
       /\ "absent" \notin DOMAIN posts[p]
       /\ \A k \in 1..Len(posts[p].comments) : "absent" \notin DOMAIN posts[p].comments[k]

\* C19: the list a snapshot hands to the subscription's callback is latest creation
\* first and equals what getPosts() returns on the same store.
C19_SnapshotIsGetPosts ==
    \A i \in Clients :
       (view[i].kind = "snapshot" /\ NoLegacy) =>
          /\ LatestFirst(view[i].data)
          /\ GetPostsResult.success
          /\ view[i].data = GetPostsResult.data

\* C20: getUserStatistics(u) returns the number of u's posts, the likes on exactly
\* those posts, and the numbers of comments and of replies u wrote in any post.
C20_Statistics ==
    \A i \in Clients :
       (view[i].kind = "getUserStatistics" /\ view[i].success) =>
          LET u    == view[i].arg
              own  == {p \in Stored : posts[p].authorId = u}
              cmts == {<<p, k>> \in Stored \X (1..MaxComments) : k <= Len(CommentsOf(p))}
              reps == {<<p, k, r>> \in Stored \X (1..MaxComments) \X (1..MaxReplies) :
                         /\ k <= Len(CommentsOf(p))
                         /\ r <= Len(OrElse(CommentsOf(p)[k], "replies", <<>>))}
          IN view[i].data =
               [totalPosts    |-> Cardinality(own),
                totalLikes    |-> Cardinality({<<p, n>> \in own \X (1..Cardinality(Users)) :
                                                 n <= Len(posts[p].likes)}),
                totalComments |-> Cardinality({c \in cmts :
                                                 CommentsOf(c[1])[c[2]].authorId = u}),
                totalReplies  |-> Cardinality({c \in reps :
                                    CommentsOf(c[1])[c[2]].replies[c[3]].authorId = u})]

\* the statistics of a user with a liked post, a comment and a reply, while someone
\* else's post is liked too
C20_Witness ==
    \E i \in Clients :
       /\ view[i].kind = "getUserStatistics" /\ view[i].success
       /\ view[i].data.totalPosts = 1 /\ view[i].data.totalLikes = 1
       /\ view[i].data.totalComments = 1 /\ view[i].data.totalReplies = 1
       /\ \E p \in Stored : posts[p].authorId # view[i].arg /\ Len(posts[p].likes) = 2

C14_ImageDeleteFailureIgnored ==
    [][\A i \in Clients :
          /\ (op[i].pc = "dp_img" /\ op'[i] # op[i]) =>
                op'[i].pc = "dp_del" /\ res'[i] = res[i] /\ posts' = posts
          /\ (op[i].pc = "dp_del" /\ op[i].io = "failed" /\ op'[i].pc = "idle"
                 /\ res'[i] # StoreError) =>
                res'[i] = "ok" /\ ~posts'[op[i].post].exists]_vars

\* the author's deletePost returned success, the post is gone, its image is still stored
C14_Witness ==
    \E i \in Clients :
       /\ op[i].pc = "idle" /\ op[i].kind = "deletePost" /\ op[i].io = "failed"
       /\ res[i] = "ok"
       /\ ~posts[op[i].post].exists
       /\ op[i].cid \in blobs

\* u wrote the post, one of its comments or one of its replies
Involved(doc, u) ==
    \/ doc.authorId = u
    \/ \E k \in 1..Len(doc.comments) :
          \/ doc.comments[k].authorId = u
          \/ \E r \in 1..Len(doc.comments[k].replies) :
                doc.comments[k].replies[r].authorId = u

\* the record with field f set to v when its author is u, else as it is
Renamed(x, u, f, v) == IF x.authorId = u THEN [x EXCEPT ![f] = v] ELSE x

\* C15: a changePassword / deleteAccount call changes the password, the users
\* document or the identity only of its own user and only after its
\* re-authentication with the supplied password succeeded; a call without a
\* signed-in user or with a failed re-authentication returns a failure and changes
\* none of them.
C15_ReauthFirst ==
    [][/\ \A i \in Clients :
            (/\ op[i].kind \in {"changePassword", "deleteAccount"}
             /\ op[i].pc # "idle" /\ op'[i] # op[i]
             /\ accounts' # accounts) =>
               LET u == op[i].uid
               IN /\ op[i].io = "ok"
                  /\ \A v \in Users \ {u} : accounts'[v] = accounts[v]
                  /\ \/ op[i].pc = "pw_update"
                        /\ accounts'[u] = [accounts[u] EXCEPT !.password = op[i].arg[2]]
                     \/ op[i].pc = "da_doc"
                        /\ accounts'[u] = [accounts[u] EXCEPT !.profile.exists = FALSE]
                     \/ op[i].pc = "da_auth"
                        /\ accounts'[u] = [accounts[u] EXCEPT !.exists = FALSE]
       /\ \A i \in Clients :
            /\ (Idle(i) /\ ~SignedIn(i) /\ op'[i] # op[i]
                   /\ op'[i].kind \in {"changePassword", "deleteAccount"}) =>
                  res'[i] \in Failures /\ op'[i].pc = "idle" /\ accounts' = accounts
            /\ (op[i].pc \in {"pw_reauth", "da_reauth"} /\ op'[i].io = "failed") =>
                  res'[i] \in Failures /\ op'[i].pc = "idle" /\ accounts' = accounts]_vars

\* one call changed the password after re-authenticating, another was refused for a
\* wrong password
C15_Witness ==
    \E i \in Clients : \E j \in Clients \ {i} :
       /\ op[i].pc = "idle" /\ op[i].kind = "changePassword" /\ res[i] = "ok"
       /\ accounts[op[i].uid].password = "pw2"
       /\ op[j].pc = "idle" /\ op[j].kind \in {"changePassword", "deleteAccount"}
       /\ op[j].io = "failed" /\ res[j] = ReauthFailed

\* C16: a fan-out that commits with no write to the posts since its scan leaves every
\* post, comment and reply of the user with the new name (photo), changes nothing
\* else, and queues no write for a post the user has no part in.
C16_FanOutExact ==
    [][\A i \in Clients :
          (op[i].pc = "fo_commit" /\ op'[i].pc = "idle" /\ op'[i].io = "ok"
             /\ op[i].stale = {}) =>
             LET u == op[i].uid
                 f == op[i].arg.field
                 v == op[i].arg.value
             IN \A p \in PostIds : posts[p].exists =>
                   LET d == posts[p]
                       e == posts'[p]
                   IN /\ e.exists
                      /\ [e EXCEPT !.comments = <<>>] =
                            [Renamed(d, u, f, v) EXCEPT !.comments = <<>>]
                      /\ Len(e.comments) = Len(d.comments)
                      /\ \A k \in 1..Len(d.comments) :
                            LET c  == d.comments[k]
                                c2 == e.comments[k]
                            IN /\ [c2 EXCEPT !.replies = <<>>] =
                                    [Renamed(c, u, f, v) EXCEPT !.replies = <<>>]
                               /\ Len(c2.replies) = Len(c.replies)
                               /\ \A r \in 1..Len(c.replies) :
                                     c2.replies[r] = Renamed(c.replies[r], u, f, v)
                      /\ ~Involved(d, u) => op[i].write[p] = <<>>]_vars

\* a display-name fan-out has returned; in another author's post the user's comment
\* carries the new name next to a comment of someone else
C16_Witness ==
    \E i \in Clients : \E p \in PostIds :
       /\ op[i].pc = "idle" /\ op[i].kind = "updateProfile" /\ op[i].io = "ok"
       /\ posts[p].exists /\ posts[p].authorId # op[i].uid
       /\ \E k \in 1..Len(posts[p].comments) :
             /\ posts[p].comments[k].authorId = op[i].uid
             /\ posts[p].comments[k].authorName = identity[op[i].uid].displayName
             /\ identity[op[i].uid].displayName \in Names

\* C17: when the fan-out's scan or batch commit throws, updateProfile and
\* updateProfileImage still return success, and the identity and the users document
\* keep the update made before the fan-out; no post is written.
C17_FanOutFailureSwallowed ==
    [][\A i \in Clients :
          (op[i].pc \in {"fo_scan", "fo_commit"} /\ op'[i].pc = "idle") =>
             /\ res'[i] = "ok"
             /\ identity' = identity /\ accounts' = accounts
             /\ op'[i].io = "failed" => posts' = posts]_vars

\* updateProfile returned success although its fan-out failed; the new name is kept
C17_Witness ==
    \E i \in Clients :
       /\ op[i].pc = "idle" /\ op[i].kind = "updateProfile" /\ op[i].io = "failed"
       /\ res[i] = "ok"
       /\ identity[op[i].uid].displayName \in Names
       /\ accounts[op[i].uid].profile.displayName = identity[op[i].uid].displayName

\* C10: a committed updateComment changes the content of, and a committed
\* deleteComment removes, only comments whose authorId is the caller's uid.
C10_OnlyAuthorEditsOrDeletes ==
    [][\A i \in Clients :
          (Commits(i) /\ op[i].kind \in {"updateComment", "deleteComment"}) =>
             LET cs == posts[op[i].post].comments
             IN \A k \in 1..Len(cs) :
                   (/\ cs[k].id = op[i].cid
                    /\ op[i].kind = "updateComment" => cs[k].content # op[i].arg) =>
                      cs[k].authorId = op[i].uid]_vars

\* the comment operations that take a commentId
CommentOps == {"updateComment", "deleteComment", "toggleCommentLike", "addReply"}

\* the comments of doc whose id is commentId
Matching(doc, commentId) == {k \in 1..Len(doc.comments) : doc.comments[k].id = commentId}

\* C21: updateComment, deleteComment, toggleCommentLike and addReply on an existing
\* post with a commentId that matches none of its comments return a failure and
\* leave the post as it is.
C21_MissingCommentFails ==
    [][\A i \in Clients :
          (/\ op[i].pc = "commit" /\ op'[i].pc = "idle"
           /\ op[i].kind \in CommentOps
           /\ posts[op[i].post].exists
           /\ Matching(posts[op[i].post], op[i].cid) = {}) =>
             /\ res'[i] \in Failures
             /\ posts' = posts]_vars

\* comment c after the call differs from c before it in nothing but what the call is
\* there to change
OnlyItsField(kind, before, after) ==
    CASE kind = "toggleCommentLike" -> after = [before EXCEPT !.likes = after.likes]
      [] kind = "updateComment"     -> after = [before EXCEPT !.content = after.content,
                                                              !.isEdited = after.isEdited]
      [] kind = "addReply"          -> after = [before EXCEPT !.replies = after.replies]

\* one step leaves alone what the committing mutation is not there to change
FrameStep ==
    \A i \in Clients :
       Commits(i) =>
          LET p  == op[i].post
              cs == posts[p].comments
              ds == posts'[p].comments
          IN /\ \A q \in PostIds \ {p} : posts'[q] = posts[q]
             /\ op[i].kind = "toggleLike" =>
                   posts'[p] = [posts[p] EXCEPT !.likes = posts'[p].likes]
             /\ op[i].kind \in {"toggleCommentLike", "updateComment", "addReply"} =>
                   /\ posts'[p] = [posts[p] EXCEPT !.comments = ds]
                   /\ Len(ds) = Len(cs)
                   /\ \/ ds = cs
                      \/ \E k \in 1..Len(cs) :
                            /\ cs[k].id = op[i].cid
                            /\ OnlyItsField(op[i].kind, cs[k], ds[k])
                            /\ \A j \in 1..Len(cs) : j # k => ds[j] = cs[j]

\* the comment ids of every stored post differ
DistinctIds ==
    \A p \in PostIds : posts[p].exists =>
       \A a \in 1..Len(posts[p].comments) : \A b \in 1..Len(posts[p].comments) :
          a # b => posts[p].comments[a].id # posts[p].comments[b].id

\* C22: a committed toggleLike changes nothing of its post but the likes; a committed
\* toggleCommentLike, updateComment or addReply on a comment changes nothing of the
\* post but that one comment, and of it only the field it is there to change; no
\* committed mutation changes another post.
C22_Frame == [][FrameStep]_vars

\* the same, from the states where the comment ids differ
C22_FrameDistinctIds == [][DistinctIds => FrameStep]_vars

\* client i's call returns in this step
Returns(i) == op[i].pc # "idle" /\ op'[i].pc = "idle"

\* C23: deleteAccount deletes the users document only after a re-authentication that
\* passed and the identity only after the document; an identity is never deleted
\* while its users document exists; a step that fails returns success: false and
\* the later steps are not made.
C23_DeleteOrder ==
    [][/\ \A u \in Users :
             (accounts[u].exists /\ ~accounts'[u].exists) => ~accounts[u].profile.exists
       /\ \A i \in Clients :
             (op[i].kind = "deleteAccount" /\ op[i].pc # "idle" /\ op'[i] # op[i]) =>
                LET u == op[i].uid
                IN /\ accounts'[u].profile # accounts[u].profile =>
                         op[i].pc = "da_doc" /\ op[i].io = "ok"
                   /\ accounts'[u].exists # accounts[u].exists =>
                         op[i].pc = "da_auth" /\ ~accounts[u].profile.exists
                   /\ (Returns(i) /\ res'[i] # "ok") =>
                         /\ res'[i] \in Failures
                         /\ accounts' = accounts]_vars

\* the same for the call's own steps alone: the document after the re-authentication,
\* the identity after the call's own deletion of the document, nothing after a failure
C23_OwnStepsInOrder ==
    [][\A i \in Clients :
          (op[i].kind = "deleteAccount" /\ op[i].pc # "idle" /\ op'[i] # op[i]) =>
             LET u == op[i].uid
             IN /\ accounts'[u].profile # accounts[u].profile =>
                      op[i].pc = "da_doc" /\ op[i].io = "ok"
                /\ accounts'[u].exists # accounts[u].exists => op[i].pc = "da_auth"
                /\ (Returns(i) /\ res'[i] # "ok") =>
                      /\ res'[i] \in Failures
                      /\ accounts' = accounts]_vars

\* C24: a signIn or signUp that returns success leaves a users document of that uid;
\* signIn writes the document only when there is none and never writes over an
\* existing one.
C24_ProfileAfterSignIn ==
    [][\A i \in Clients :
          (op[i].kind \in {"signIn", "signUp"} /\ op[i].pc # "idle" /\ op'[i] # op[i]) =>
             LET u == op[i].uid
             IN /\ (Returns(i) /\ res'[i] = "ok") => accounts'[u].profile.exists
                /\ (op[i].kind = "signIn" /\ accounts'[u].profile # accounts[u].profile) =>
                      ~accounts[u].profile.exists]_vars

\* the first half alone: the document is there when signIn or signUp returns success
C24_ProfileOnSuccess ==
    [][\A i \in Clients :
          (op[i].kind \in {"signIn", "signUp"} /\ Returns(i) /\ res'[i] = "ok") =>
             accounts'[op[i].uid].profile.exists]_vars

\* in sequence s an entry with id a stands before one with id b
Before(s, a, b) == \E j \in 1..Len(s) : \E k \in 1..Len(s) : j < k /\ s[j].id = a /\ s[k].id = b

\* the entries that s and t share stand in t in the order they have in s
KeepsOrder(s, t) ==
    \A j \in 1..Len(s) : \A k \in 1..Len(s) :
       LET a == s[j].id
           b == s[k].id
       IN (a # b /\ Before(s, a, b) /\ ~Before(s, b, a)) => ~Before(t, b, a)

\* one step keeps the comments and the replies in insertion order
OrderStep ==
    /\ \A i \in Clients :
          Commits(i) =>
             LET cs == posts[op[i].post].comments
                 ds == posts'[op[i].post].comments
             IN /\ op[i].kind = "addComment" =>
                      /\ ds = Append(cs, ds[Len(ds)])
                      /\ ds[Len(ds)].likes = <<>> /\ ds[Len(ds)].replies = <<>>
                      /\ ds[Len(ds)].isEdited = FALSE
                /\ op[i].kind = "addReply" =>
                      /\ Len(ds) = Len(cs)
                      /\ \A k \in 1..Len(cs) :
                            IF cs[k].id = op[i].cid
                            THEN LET rs == ds[k].replies
                                 IN Len(rs) > 0 /\ rs = Append(cs[k].replies, rs[Len(rs)])
                            ELSE ds[k].replies = cs[k].replies
    /\ \A p \in PostIds :
          (posts[p].exists /\ posts'[p].exists) =>
             LET cs == posts[p].comments
                 ds == posts'[p].comments
             IN /\ KeepsOrder(cs, ds)
                /\ \A j \in 1..Len(cs) : \A k \in 1..Len(ds) :
                      cs[j].id = ds[k].id => KeepsOrder(cs[j].replies, ds[k].replies)

\* C25: addComment puts the new comment (no likes, no replies, not edited) after the
\* existing comments, addReply the new reply after the existing replies of its
\* parent, and no step changes the order of the comments or replies that remain.
C25_InsertionOrder == [][OrderStep]_vars

\* the first comment was deleted and a new one added: it stands behind the comment
\* that remained
C25_Witness ==
    \E i \in Clients :
       /\ op[i].kind = "addComment" /\ op[i].pc = "idle" /\ res[i] = "ok"
       /\ posts["p1"].exists
       /\ Len(posts["p1"].comments) = 2
       /\ posts["p1"].comments[1].authorId = "B"
       /\ posts["p1"].comments[1].replies = <<>>
       /\ posts["p1"].comments[2].authorId = op[i].uid

\* C26: the comment ids within a post are pairwise distinct in every reachable state,
\* so a comment operation changes at most one comment.
C26_DistinctCommentIds ==
    \A p \in PostIds : posts[p].exists =>
       \A c \in Times : Cardinality(Matching(posts[p], c)) <= 1

\* post p was deleted: the store has assigned the id and holds no document of it
Deleted(p) == p \in usedIds /\ ~posts[p].exists

\* C27: a post that deletePost has deleted does not exist in any later state: no
\* mutation, fan-out batch or createPost brings a document of that id back.
C27_DeletedStaysDeleted ==
    [][\A p \in PostIds : Deleted(p) => ~posts'[p].exists]_vars

\* deletePost succeeded while a mutation of the same post was in flight; the
\* mutation ran again and returned not-found
C27_Witness ==
    \E i \in Clients : \E j \in Clients :
       /\ op[i].kind = "deletePost" /\ op[i].pc = "idle" /\ res[i] = "ok"
       /\ op[j].kind \in Mutations /\ op[j].pc = "idle" /\ op[j].post = op[i].post
       /\ op[j].retried /\ res[j] = NotFound
       /\ Deleted(op[i].post)

\* nothing is on its way to client i's home screen: no getPosts response, and the
\* listener has been called with the collection as it is
Delivered(i) ==
    view[i].kind = "home" /\ Idle(i) /\ view[i].called /\ view[i].snapshot = SnapshotList

\* the list is the store's posts, as the snapshot or as getPosts gives them
ShowsStore(list) ==
    \/ list = SnapshotList
    \/ GetPostsResult.success /\ list = GetPostsResult.data

\* C28: once every response and snapshot on its way to a home screen is delivered,
\* the screen's list is the store's posts: a getPosts response that arrives after
\* a newer snapshot has not replaced it.
C28_HomeListCurrent ==
    \A i \in Clients : Delivered(i) => ShowsStore(view[i].posts)

\* C29: an updateProfile({displayName}) that returns success: false leaves the
\* identity's display name and the users document as they were before the call; one
\* that returns success has set both to the new name.
C29_ProfileAllOrNothing ==
    [][\A i \in Clients :
          /\ (Idle(i) /\ opsLeft' < opsLeft
                /\ op'[i].kind = "updateProfile" /\ op'[i].pc = "idle") =>
                /\ res'[i] \in Failures
                /\ identity' = identity /\ accounts' = accounts
          /\ (op[i].kind = "updateProfile" /\ Returns(i) /\ res'[i] = "ok") =>
                /\ identity'[op[i].uid].displayName = op[i].arg.value
                /\ accounts'[op[i].uid].profile.displayName = op[i].arg.value]_vars

\* a deletePost of post p is under way
Deleting(p) == \E i \in Clients : op[i].kind = "deletePost" /\ op[i].pc # "idle" /\ op[i].post = p

\* C30: a stored post that no deletePost is working on has its attached image in
\* blob storage; so after a deletePost that returned success: false the post and
\* its image are both still there.
C30_ImageOfStoredPost ==
    \A p \in PostIds :
       (posts[p].exists /\ ~Deleting(p) /\ posts[p].imageUrl # NoImage) =>
          posts[p].imageUrl \in blobs

====
